---- MODULE Spec2Model ----
(***************************************************************************)
(* A model of the read-faster import pipeline: the text normalizer, the    *)
(* EPUB and PDF parsers, the import orchestrator and the book storage      *)
(* service.  Text is a sequence of characters, a character being a         *)
(* one-character string (a character outside ASCII is "#" and its code in  *)
(* decimal, such as "#8212").          Regular expressions are syntax      *)
(* trees run by a backtracking matcher with JavaScript's priorities.       *)
(*                                                                         *)
(* A value that a later step reads is bound with  x \in {e}  (as in        *)
(* CHOOSE out \in {F(x) : x \in {e}} : TRUE,  which is F(e)): TLC then      *)
(* computes e before it enters F, where a LET would compute it only at     *)
(* its first use, deep inside the matcher.                                 *)
(***************************************************************************)
EXTENDS Integers, Sequences, FiniteSets, TLC

(***************************************************************************)
(* Characters and character classes                                        *)
(***************************************************************************)
Chars(str) == [i \in 1..Len(str) |-> SubSeq(str, i, i)]

Range(f) == {f[i] : i \in DOMAIN f}

LowerAZ == Chars("abcdefghijklmnopqrstuvwxyz")

UpperAZ == Chars("ABCDEFGHIJKLMNOPQRSTUVWXYZ")

Digit == Range(Chars("0123456789"))

Letter == Range(LowerAZ) \cup Range(UpperAZ)

\* \w
WordCh == Letter \cup Digit \cup {"_"}

\* \s, over the characters the documents of the model use
Space == {" ", "\t", "\n", "\r"}

\* the line terminators at which ^ and $ match under the m flag
LineTerm == {"\n", "\r"}

EmDash == "#8212"

EnDash == "#8211"

CopyrightSign == "#169"

IAcute == "#237"

\* the character outside ASCII, or the control character, with the given code
Coded(code) == "#" \o ToString(code)

ToUpper(c) ==
  IF \E i \in DOMAIN LowerAZ : LowerAZ[i] = c
  THEN UpperAZ[CHOOSE i \in DOMAIN LowerAZ : LowerAZ[i] = c]
  ELSE c

ToLower(c) ==
  IF \E i \in DOMAIN UpperAZ : UpperAZ[i] = c
  THEN LowerAZ[CHOOSE i \in DOMAIN UpperAZ : UpperAZ[i] = c]
  ELSE c

(***************************************************************************)
(* Regular expressions: syntax                                             *)
(***************************************************************************)
Set(cs) == [t |-> "set", cs |-> cs]

NotSet(cs) == [t |-> "not", cs |-> cs]

AnyCh == NotSet({})

\* . (no line terminator)
Dot == NotSet(LineTerm)

Cat(rs) == [t |-> "cat", rs |-> rs]

Alt(rs) == [t |-> "alt", rs |-> rs]

\* max < 0: no upper bound
Rep(r, min, max, greedy) == [t |-> "rep", r |-> r, min |-> min, max |-> max, greedy |-> greedy]

Star(r) == Rep(r, 0, -1, TRUE)

Plus(r) == Rep(r, 1, -1, TRUE)

Opt(r) == Rep(r, 0, 1, TRUE)

LazyStar(r) == Rep(r, 0, -1, FALSE)

Grp(n, r) == [t |-> "grp", n |-> n, r |-> r]

NotAhead(r) == [t |-> "nla", r |-> r]

\* ^ and $ with the m flag
Bol == [t |-> "bol"]

Eol == [t |-> "eol"]

\* ^ and $ without the m flag
Bos == [t |-> "bos"]

Eos == [t |-> "eos"]

\* \b
WordB == [t |-> "wb"]

\* a literal; ci: under the i flag
Lit(str) == [t |-> "lit", w |-> Chars(str), ci |-> FALSE]

LitCi(str) == [t |-> "lit", w |-> Chars(str), ci |-> TRUE]

SetCi(cs) == Set({ToLower(c) : c \in cs} \cup {ToUpper(c) : c \in cs})

SetMin(S) == CHOOSE x \in S : \A y \in S : x <= y

SetMax(S) == CHOOSE x \in S : \A y \in S : y <= x

(***************************************************************************)
(* Regular expressions: the backtracking matcher.  MatchK runs the list k  *)
(* of expressions, one after the other, on s from position i and returns   *)
(* the first match in priority order (greedy: longer first; lazy: shorter  *)
(* first; alternatives: left to right), with the groups it captured.       *)
(***************************************************************************)
NoGroups == <<<<0, 0>>, <<0, 0>>>>

NoMatch == [ok |-> FALSE, b |-> 0, p |-> 0, g |-> NoGroups]

IsWordAt(s, i) == i >= 1 /\ i <= Len(s) /\ s[i] \in WordCh

\* whether the one-character expression r (a class or its complement) takes character c
TakesChar(r, c) == IF r.t = "set" THEN c \in r.cs ELSE c \notin r.cs

\* the length of the longest run of characters taken by r from position i
RunLen(r, s, i) ==
  LET stops == {j \in i..Len(s) : ~TakesChar(r, s[j])}
  IN IF stops = {} THEN Len(s) + 1 - i ELSE SetMin(stops) - i

LitAt(r, s, i) ==
  /\ i + Len(r.w) - 1 <= Len(s)
  /\ \A j \in 1..Len(r.w) :
       IF r.ci THEN ToLower(s[i + j - 1]) = ToLower(r.w[j]) ELSE s[i + j - 1] = r.w[j]

\* of the attempts fits (each [c, m]: a count and the match of the rest after
\* it) that matched, the one to take
FirstFit(fits, greedy) ==
  CHOOSE x \in fits : x.m.ok /\ \A y \in fits : y.m.ok => IF greedy THEN y.c <= x.c ELSE y.c >= x.c

RECURSIVE MatchK(_, _, _, _)
RECURSIVE MatchCount(_, _, _, _, _, _, _)
\* the match of continuation k after lo..hi characters, the candidate counts
\* tried eight at a time in the order of preference
MatchCount(k, s, i, g, lo, hi, greedy) ==
  IF lo > hi THEN NoMatch
  ELSE LET from == IF greedy /\ hi - 7 > lo THEN hi - 7 ELSE lo
           to == IF ~greedy /\ lo + 7 < hi THEN lo + 7 ELSE hi
       IN CHOOSE out \in
            {IF \E x \in fits : x.m.ok THEN FirstFit(fits, greedy).m
             ELSE IF greedy THEN MatchCount(k, s, i, g, lo, from - 1, greedy)
             ELSE MatchCount(k, s, i, g, to + 1, hi, greedy) :
               fits \in {{[c |-> c, m |-> MatchK(k, s, i + c, g)] : c \in from..to}}} : TRUE

MatchK(k, s, i, g) ==
  IF k = <<>> THEN [ok |-> TRUE, b |-> 0, p |-> i, g |-> g]
  ELSE
    LET r == Head(k)
        rest == Tail(k)
    IN CASE r.t \in {"set", "not"} ->
              IF i <= Len(s) /\ TakesChar(r, s[i]) THEN MatchK(rest, s, i + 1, g) ELSE NoMatch
         [] r.t = "lit" ->
              IF LitAt(r, s, i) THEN MatchK(rest, s, i + Len(r.w), g) ELSE NoMatch
         [] r.t = "bol" ->
              IF i = 1 \/ s[i - 1] \in LineTerm THEN MatchK(rest, s, i, g) ELSE NoMatch
         [] r.t = "eol" ->
              IF i = Len(s) + 1 \/ s[i] \in LineTerm THEN MatchK(rest, s, i, g) ELSE NoMatch
         [] r.t = "bos" ->
              IF i = 1 THEN MatchK(rest, s, i, g) ELSE NoMatch
         [] r.t = "eos" ->
              IF i = Len(s) + 1 THEN MatchK(rest, s, i, g) ELSE NoMatch
         [] r.t = "wb" ->
              IF IsWordAt(s, i - 1) # IsWordAt(s, i) THEN MatchK(rest, s, i, g) ELSE NoMatch
         [] r.t = "cat" -> MatchK(r.rs \o rest, s, i, g)
         [] r.t = "alt" ->
              IF r.rs = <<>> THEN NoMatch
              ELSE LET first == MatchK(<<Head(r.rs)>> \o rest, s, i, g)
                   IN IF first.ok THEN first
                      ELSE MatchK(<<Alt(Tail(r.rs))>> \o rest, s, i, g)
         [] r.t = "rep" /\ r.r.t \in {"set", "not"} ->
              \* a repeated character class: the first count after which the rest
              \* matches, tried from the largest when greedy, from the smallest when lazy
              LET run == RunLen(r.r, s, i)
                  hi == IF r.max >= 0 /\ r.max < run THEN r.max ELSE run
              IN MatchCount(rest, s, i, g, r.min, hi, r.greedy)
         [] r.t = "rep" /\ r.r.t \notin {"set", "not"} ->
              LET again == Rep(r.r, IF r.min > 0 THEN r.min - 1 ELSE 0,
                               IF r.max > 0 THEN r.max - 1 ELSE r.max, r.greedy)
                  more == MatchK(<<r.r, [t |-> "adv", from |-> i], again>> \o rest, s, i, g)
                  stop == MatchK(rest, s, i, g)
              IN IF r.min > 0 THEN more
                 ELSE IF r.max = 0 THEN stop
                 ELSE IF r.greedy THEN (IF more.ok THEN more ELSE stop)
                 ELSE (IF stop.ok THEN stop ELSE more)
         [] r.t = "adv" ->
              \* an iteration that matched the empty string ends the repetition
              IF i > r.from THEN MatchK(rest, s, i, g) ELSE NoMatch
         [] r.t = "grp" ->
              MatchK(<<[t |-> "open", n |-> r.n], r.r, [t |-> "close", n |-> r.n]>> \o rest,
                     s, i, g)
         [] r.t = "open" -> MatchK(rest, s, i, [g EXCEPT ![r.n] = <<i, i>>])
         [] r.t = "close" -> MatchK(rest, s, i, [g EXCEPT ![r.n] = <<@[1], i>>])
         [] r.t = "nla" ->
              IF MatchK(<<r.r>>, s, i, g).ok THEN NoMatch ELSE MatchK(rest, s, i, g)

\* the match of r that starts at position i exactly
MatchAt(r, s, i) == [MatchK(<<r>>, s, i, NoGroups) EXCEPT !.b = i]

\* the matches of r in s, one for each position at which a match starts
MatchSet(r, s) == {m \in {MatchAt(r, s, i) : i \in 1..(Len(s) + 1)} : m.ok}

\* the positions of s at which a match of r starts
MatchStarts(r, s) == {m.b : m \in MatchSet(r, s)}

\* of the matches ms, the first that starts at from or later
FirstFrom(ms, from) ==
  IF \E m \in ms : m.b >= from
  THEN CHOOSE m \in ms : m.b >= from /\ \A n \in ms : n.b >= from => n.b >= m.b
  ELSE NoMatch

\* RegExp.prototype.exec from lastIndex: the first match starting at from or later
Search(r, s, from) ==
  CHOOSE out \in {FirstFrom(ms, from) : ms \in {MatchSet(r, s)}} : TRUE

\* the successive matches of a g-flagged expression (a loop of exec, matchAll, replace):
\* each starts where the one before ended, or one further after an empty match
RECURSIVE MatchesFrom(_, _)
MatchesFrom(ms, pos) ==
  CHOOSE out \in
    {IF ~m.ok THEN <<>>
     ELSE <<m>> \o MatchesFrom(ms, IF m.p > m.b THEN m.p ELSE m.b + 1) :
       m \in {FirstFrom(ms, pos)}} : TRUE

Matches(r, s) ==
  CHOOSE out \in {MatchesFrom(ms, 1) : ms \in {MatchSet(r, s)}} : TRUE

\* the text of group n of match m (empty when the group did not take part)
GroupText(s, m, n) == SubSeq(s, m.g[n][1], m.g[n][2] - 1)

\* RegExp.prototype.test
Test(r, s) == MatchStarts(r, s) # {}

\* a replacement template is a sequence of [g |-> group or 0, c |-> literal text]
RECURSIVE Expand(_, _, _)
Expand(tpl, s, m) ==
  IF tpl = <<>> THEN <<>>
  ELSE (IF Head(tpl).g > 0 THEN GroupText(s, m, Head(tpl).g) ELSE <<>>)
       \o Head(tpl).c \o Expand(Tail(tpl), s, m)

\* String.prototype.replace with a g-flagged expression: the text from pos with
\* the matches ms[n..] replaced
RECURSIVE ReplaceFrom(_, _, _, _, _)
ReplaceFrom(s, ms, tpl, n, pos) ==
  IF n > Len(ms) THEN SubSeq(s, pos, Len(s))
  ELSE SubSeq(s, pos, ms[n].b - 1) \o Expand(tpl, s, ms[n])
       \o ReplaceFrom(s, ms, tpl, n + 1, ms[n].p)

ReplaceAll(r, s, tpl) ==
  CHOOSE out \in {ReplaceFrom(s, ms, tpl, 1, 1) : ms \in {Matches(r, s)}} : TRUE

Remove == <<>>

Put(str) == <<[g |-> 0, c |-> Chars(str)]>>

\* String.prototype.split with an expression that matches no empty string:
\* the pieces between the successive matches
Split(r, s) ==
  LET ms == Matches(r, s)
  IN [n \in 1..(Len(ms) + 1) |->
        SubSeq(s, IF n = 1 THEN 1 ELSE ms[n - 1].p,
                  IF n = Len(ms) + 1 THEN Len(s) ELSE ms[n].b - 1)]

\* String.prototype.trim
Trim(s) ==
  LET inked == {i \in 1..Len(s) : s[i] \notin Space}
  IN IF inked = {} THEN <<>> ELSE SubSeq(s, SetMin(inked), SetMax(inked))

(***************************************************************************)
(* Text normalizer                                                         *)
(***************************************************************************)
Dashes == {"-", EmDash, EnDash}

PageNumberPatterns ==
  << Cat(<<Bol, Opt(Grp(1, Cat(<<LitCi("Page"), Plus(Set(Space))>>))),
           Rep(Set(Digit), 1, 4, TRUE), Eol>>),
     Cat(<<Bol, Set(Dashes), Star(Set(Space)), Rep(Set(Digit), 1, 4, TRUE),
           Star(Set(Space)), Set(Dashes), Eol>>),
     Cat(<<Bol, Lit("["), Rep(Set(Digit), 1, 4, TRUE), Lit("]"), Eol>>),
     Cat(<<Bol, Lit("("), Rep(Set(Digit), 1, 4, TRUE), Lit(")"), Eol>>),
     Cat(<<Bol, LitCi("p."), Star(Set(Space)), Rep(Set(Digit), 1, 4, TRUE), Eol>>) >>

ChapterMarkerPatterns ==
  << Cat(<<Bol,
           Grp(1, Alt(<<LitCi("chapter"),
                        Cat(<<LitCi("cap"), SetCi({IAcute}), LitCi("tulo")>>),
                        Cat(<<LitCi("cap"), Opt(Lit("."))>>)>>)),
           Star(Set(Space)), Plus(Set(Digit)), Eol>>),
     Cat(<<Bol, Plus(SetCi(Range(Chars("ivxlcdm")))), Eol>>),
     Cat(<<Bol, LitCi("part"), Plus(Set(Space)), Plus(Set(Digit)), Eol>>),
     Cat(<<Bol, LitCi("section"), Plus(Set(Space)), Plus(Set(Digit)), Eol>>) >>

HeaderFooterPatterns ==
  << Cat(<<Bol, Grp(1, Alt(<<LitCi("copyright"), Set({CopyrightSign})>>)), Star(Dot), Eol>>),
     Cat(<<Bol, LitCi("all rights reserved"), Star(Dot), Eol>>),
     Cat(<<Bol, LitCi("isbn"), Star(Set(Space \cup {":", "-"})),
           Plus(Set(Digit \cup {"-"})), Eol>>) >>

\* for (const pattern of patterns) result = result.replace(pattern, "")
RECURSIVE RemoveEach(_, _)
RemoveEach(patterns, text) ==
  IF patterns = <<>> THEN text
  ELSE CHOOSE out \in {RemoveEach(Tail(patterns), result) :
                         result \in {ReplaceAll(Head(patterns), text, Remove)}} : TRUE

removePageNumbers(text) == RemoveEach(PageNumberPatterns, text)

removeChapterMarkers(text) == RemoveEach(ChapterMarkerPatterns, text)

removeHeaders(text) == RemoveEach(HeaderFooterPatterns, text)

HyphenationPattern ==
  Cat(<<Grp(1, Plus(Set(WordCh))), Lit("-"), Star(Set(Space)), Lit("\n"),
        Star(Set(Space)), Grp(2, Plus(Set(WordCh)))>>)

handleHyphenation(text) ==
  ReplaceAll(HyphenationPattern, text, <<[g |-> 1, c |-> <<>>], [g |-> 2, c |-> <<>>]>>)

collapseWhitespace(text) ==
  CHOOSE out \in
    {Trim(e) :
       e \in {ReplaceAll(Lit(" \n"), d, Put("\n")) :
         d \in {ReplaceAll(Lit("\n "), c, Put("\n")) :
           c \in {ReplaceAll(Plus(Set({" ", "\t"})), b, Put(" ")) :
             b \in {ReplaceAll(Rep(Lit("\n"), 3, -1, TRUE), a, Put("\n\n")) :
               a \in {ReplaceAll(Lit("\r\n"), text, Put("\n"))}}}}}} : TRUE

DEFAULT_OPTIONS ==
  [removePageNumbers |-> TRUE, removeChapterMarkers |-> TRUE, removeHeaders |-> TRUE,
   collapseWhitespace |-> TRUE, handleHyphenation |-> TRUE]

\* page numbers removed before the hyphenated words are joined
normalizeTextWithPagesFirst(text, options) ==
  CHOOSE out \in
    {IF options.collapseWhitespace THEN collapseWhitespace(r4) ELSE r4 :
       r4 \in {IF options.removeHeaders THEN removeHeaders(r3) ELSE r3 :
         r3 \in {IF options.removeChapterMarkers THEN removeChapterMarkers(r2) ELSE r2 :
           r2 \in {IF options.handleHyphenation THEN handleHyphenation(r1) ELSE r1 :
             r1 \in {IF options.removePageNumbers THEN removePageNumbers(text)
                     ELSE text}}}}} : TRUE

normalizeTextWith(text, options) ==
  CHOOSE out \in
    {IF options.collapseWhitespace THEN collapseWhitespace(r4) ELSE r4 :
       r4 \in {IF options.removeHeaders THEN removeHeaders(r3) ELSE r3 :
         r3 \in {IF options.removeChapterMarkers THEN removeChapterMarkers(r2) ELSE r2 :
           r2 \in {IF options.removePageNumbers THEN removePageNumbers(r1) ELSE r1 :
             r1 \in {IF options.handleHyphenation THEN handleHyphenation(text)
                     ELSE text}}}}} : TRUE

normalizeText(text) == normalizeTextWith(text, DEFAULT_OPTIONS)

\* the test written without the +
IsNotOneDigit(word) == ~Test(Cat(<<Bos, Set(Digit), Eos>>), word)

\* (word) => word.length > 0
IsNonEmpty(word) == Len(word) > 0

\* (word) => !/^[\d]+$/.test(word)
IsNotNumber(word) == ~Test(Cat(<<Bos, Plus(Set(Digit)), Eos>>), word)

tokenizeWords(text) ==
  CHOOSE words \in
    {SelectSeq(SelectSeq(pieces, IsNonEmpty), IsNotNumber) :
       pieces \in {Split(Plus(Set(Space)), text)}} : TRUE

(***************************************************************************)
(* stripHtmlTags                                                           *)
(***************************************************************************)
\* /<name\b[^<]*(?:(?!<\/name>)<[^<]*)*<\/name>/gi
ElementPattern(name) ==
  Cat(<<LitCi("<" \o name), WordB, Star(NotSet({"<"})),
        Star(Cat(<<NotAhead(LitCi("</" \o name \o ">")), Lit("<"), Star(NotSet({"<"}))>>)),
        LitCi("</" \o name \o ">")>>)

stripHtmlTags(html) ==
  CHOOSE out \in
    {ReplaceAll(Cat(<<Lit("&"), Plus(Set(Letter)), Lit(";")>>), h9, Put(" ")) :
      h9 \in {ReplaceAll(LitCi("&#39;"), h8, Put("'")) :
       h8 \in {ReplaceAll(LitCi("&quot;"), h7, Put("\"")) :
        h7 \in {ReplaceAll(LitCi("&gt;"), h6, Put(">")) :
         h6 \in {ReplaceAll(LitCi("&lt;"), h5, Put("<")) :
          h5 \in {ReplaceAll(LitCi("&amp;"), h4, Put("&")) :
           h4 \in {ReplaceAll(LitCi("&nbsp;"), h3, Put(" ")) :
            h3 \in {ReplaceAll(Cat(<<Lit("<"), Plus(NotSet({">"})), Lit(">")>>), h2, Put(" ")) :
             h2 \in {ReplaceAll(ElementPattern("style"), h1, Remove) :
              h1 \in {ReplaceAll(ElementPattern("script"), html, Remove)}}}}}}}}}} : TRUE

(***************************************************************************)
(* Optional values, and objects used as maps from text to text             *)
(***************************************************************************)
None == [some |-> FALSE]

Some(v) == [some |-> TRUE, v |-> v]

\* a value used as a condition: undefined and "" are falsy
Truthy(m) == m.some /\ m.v # <<>>

EmptyMap == [key \in {} |-> <<>>]

\* map[key] = value
MapSet(map, key, value) ==
  [x \in (DOMAIN map) \cup {key} |-> IF x = key THEN value ELSE map[x]]

\* map[key]
MapGet(map, key) == IF key \in DOMAIN map THEN Some(map[key]) ELSE None

\* map[match[kg]] = match[vg] (the value trimmed when trim) for each match ms[n..], in order
RECURSIVE AssignMatches(_, _, _, _, _, _, _)
AssignMatches(map, s, ms, kg, vg, trim, n) ==
  IF n > Len(ms) THEN map
  ELSE CHOOSE out \in
         {AssignMatches(next, s, ms, kg, vg, trim, n + 1) :
            next \in {MapSet(map, GroupText(s, ms[n], kg),
                             IF trim THEN Trim(GroupText(s, ms[n], vg))
                             ELSE GroupText(s, ms[n], vg))}} : TRUE

(***************************************************************************)
(* EPUB parser: the structure of the archive.  A zip is a set of entries   *)
(* [path, data].                                                           *)
(***************************************************************************)
\* zip.file(path)?.async("string")
ZipFile(zip, path) ==
  IF \E e \in zip : e.path = path
  THEN Some((CHOOSE e \in zip : e.path = path).data)
  ELSE None

\* the first match of r in s, and the text of its group 1
FirstGroup(r, s) ==
  CHOOSE out \in {IF m.ok THEN Some(GroupText(s, m, 1)) ELSE None :
                    m \in {Search(r, s, 1)}} : TRUE

Quoted(r) == Cat(<<Lit("\""), r, Lit("\"")>>)

\* attr="([^"]+)" under the i flag, with the value in group n
Attr(attr, n) == Cat(<<LitCi(attr \o "="), Quoted(Grp(n, Plus(NotSet({"\""}))))>>)

\* [ok, path]; not ok: throws "Could not find OPF path in container.xml"
extractOpfPath(containerXml) ==
  CHOOSE out \in {[ok |-> m.some, path |-> IF m.some THEN m.v ELSE <<>>] :
                    m \in {FirstGroup(Cat(<<Lit("full-path="), Quoted(Grp(1, Plus(NotSet({"\""}))))>>),
                                     containerXml)}} : TRUE

\* opfPath.substring(0, opfPath.lastIndexOf("/") + 1)
DirOf(opfPath) ==
  LET slashes == {i \in 1..Len(opfPath) : opfPath[i] = "/"}
  IN IF slashes = {} THEN <<>> ELSE SubSeq(opfPath, 1, SetMax(slashes))

\* /<dc:name[^>]*>([^<]+)<\/dc:name>/i, trimmed
DcElement(name, opfContent) ==
  CHOOSE out \in {IF m.some THEN Some(Trim(m.v)) ELSE None :
     m \in {FirstGroup(Cat(<<LitCi("<dc:" \o name), Star(NotSet({">"})), Lit(">"),
                             Grp(1, Plus(NotSet({"<"}))), LitCi("</dc:" \o name \o ">")>>),
                       opfContent)}} : TRUE

extractMetadata(opfContent) ==
  [title |-> DcElement("title", opfContent), author |-> DcElement("creator", opfContent)]

\* /<name[^>]*>([\s\S]*?)<\/name>/i
SectionPattern(name) ==
  Cat(<<LitCi("<" \o name), Star(NotSet({">"})), Lit(">"), Grp(1, LazyStar(AnyCh)),
        LitCi("</" \o name \o ">")>>)

\* /<itemref[^>]*idref="([^"]+)"[^>]*\/?>/gi
ItemrefPattern ==
  Cat(<<LitCi("<itemref"), Star(NotSet({">"})), Attr("idref", 1), Star(NotSet({">"})),
        Opt(Lit("/")), Lit(">")>>)

\* the idrefs of the spine, in document order
extractSpine(opfContent) ==
  CHOOSE items \in
    {IF ~spine.some THEN <<>>
     ELSE CHOOSE ids \in {[n \in 1..Len(ms) |-> [id |-> GroupText(spine.v, ms[n], 1), href |-> <<>>]] :
                            ms \in {Matches(ItemrefPattern, spine.v)}} : TRUE :
       spine \in {FirstGroup(SectionPattern("spine"), opfContent)}} : TRUE

\* /<item[^>]*first="([^"]+)"[^>]*second="([^"]+)"[^>]*\/?>/gi
ItemPattern(first, second) ==
  Cat(<<LitCi("<item"), Star(NotSet({">"})), Attr(first, 1), Star(NotSet({">"})),
        Attr(second, 2), Star(NotSet({">"})), Opt(Lit("/")), Lit(">")>>)

extractManifest(opfContent) ==
  CHOOSE manifest \in
    {IF ~content.some THEN EmptyMap
     ELSE CHOOSE out \in
       {AssignMatches(byId, content.v, Matches(ItemPattern("href", "id"), content.v), 2, 1, FALSE, 1) :
          byId \in {AssignMatches(EmptyMap, content.v,
                                  Matches(ItemPattern("id", "href"), content.v), 1, 2, FALSE, 1)}} : TRUE :
       content \in {FirstGroup(SectionPattern("manifest"), opfContent)}} : TRUE

\* /<item[^>]*href="([^"]+)"[^>]*media-type="application\/x-dtbncx\+xml"[^>]*\/?>/i
NcxItemPattern ==
  Cat(<<LitCi("<item"), Star(NotSet({">"})), Attr("href", 1), Star(NotSet({">"})),
        LitCi("media-type=\"application/x-dtbncx+xml\""), Star(NotSet({">"})),
        Opt(Lit("/")), Lit(">")>>)

\* /<item[^>]*properties="nav"[^>]*href="([^"]+)"[^>]*\/?>/i
NavItemPattern ==
  Cat(<<LitCi("<item"), Star(NotSet({">"})), LitCi("properties=\"nav\""),
        Star(NotSet({">"})), Attr("href", 1), Star(NotSet({">"})), Opt(Lit("/")), Lit(">")>>)

\* /<navPoint[^>]*>[\s\S]*?<text>([^<]+)<\/text>[\s\S]*?<content[^>]*src="([^"#]+)/gi
NavPointPattern ==
  Cat(<<LitCi("<navPoint"), Star(NotSet({">"})), Lit(">"), LazyStar(AnyCh),
        LitCi("<text>"), Grp(1, Plus(NotSet({"<"}))), LitCi("</text>"), LazyStar(AnyCh),
        LitCi("<content"), Star(NotSet({">"})), LitCi("src=\""),
        Grp(2, Plus(NotSet({"\"", "#"})))>>)

\* /<nav[^>]*epub:type="toc"[^>]*>([\s\S]*?)<\/nav>/i
TocNavPattern ==
  Cat(<<LitCi("<nav"), Star(NotSet({">"})), LitCi("epub:type=\"toc\""), Star(NotSet({">"})),
        Lit(">"), Grp(1, LazyStar(AnyCh)), LitCi("</nav>")>>)

\* /<a[^>]*href="([^"#]+)[^"]*"[^>]*>([^<]+)<\/a>/gi
AnchorPattern ==
  Cat(<<LitCi("<a"), Star(NotSet({">"})), LitCi("href=\""), Grp(1, Plus(NotSet({"\"", "#"}))),
        Star(NotSet({"\""})), Lit("\""), Star(NotSet({">"})), Lit(">"),
        Grp(2, Plus(NotSet({"<"}))), LitCi("</a>")>>)

\* the titles the NCX gives, added to titles
NcxTitles(zip, opfDir, opfContent, titles) ==
  CHOOSE out \in
    {IF ~ncxMatch.some THEN titles
     ELSE CHOOSE withNcx \in
       {IF ~Truthy(ncxContent) THEN titles
        ELSE AssignMatches(titles, ncxContent.v, Matches(NavPointPattern, ncxContent.v), 2, 1, TRUE, 1) :
          ncxContent \in {ZipFile(zip, opfDir \o ncxMatch.v)}} : TRUE :
       ncxMatch \in {FirstGroup(NcxItemPattern, opfContent)}} : TRUE

\* the titles the EPUB3 nav document gives, added to titles
NavTitles(zip, opfDir, opfContent, titles) ==
  CHOOSE out \in
    {IF ~navMatch.some THEN titles
     ELSE CHOOSE withNav \in
       {IF ~Truthy(navContent) THEN titles
        ELSE CHOOSE fromToc \in
          {IF ~tocMatch.some THEN titles
           ELSE AssignMatches(titles, tocMatch.v, Matches(AnchorPattern, tocMatch.v), 1, 2, TRUE, 1) :
             tocMatch \in {FirstGroup(TocNavPattern, navContent.v)}} : TRUE :
          navContent \in {ZipFile(zip, opfDir \o navMatch.v)}} : TRUE :
       navMatch \in {FirstGroup(NavItemPattern, opfContent)}} : TRUE

\* the nav document read first and the NCX second
extractTOCTitlesNcxLast(zip, opfDir, opfContent) ==
  CHOOSE out \in {NcxTitles(zip, opfDir, opfContent, titles) :
                    titles \in {NavTitles(zip, opfDir, opfContent, EmptyMap)}} : TRUE

extractTOCTitles(zip, opfDir, opfContent) ==
  CHOOSE out \in {NavTitles(zip, opfDir, opfContent, titles) :
                    titles \in {NcxTitles(zip, opfDir, opfContent, EmptyMap)}} : TRUE

\* String(index)
RECURSIVE NumberText(_)
NumberText(n) ==
  IF n < 10 THEN <<Chars("0123456789")[n + 1]>>
  ELSE NumberText(n \div 10) \o <<Chars("0123456789")[(n % 10) + 1]>>

ToLowerText(s) == [i \in 1..Len(s) |-> ToLower(s[i])]

\* String.prototype.includes
Includes(s, str) == Test(Lit(str), s)

generateChapterTitle(href, index) ==
  LET slashes == {i \in 1..Len(href) : href[i] = "/"}
      last == IF slashes = {} THEN href ELSE SubSeq(href, SetMax(slashes) + 1, Len(href))
      filename == IF last = <<>> THEN href ELSE last
      \* /\.[^.]+$/ without the g flag: the first match only
      ext == Search(Cat(<<Lit("."), Plus(NotSet({"."})), Eos>>), filename, 1)
      stem == IF ext.ok THEN SubSeq(filename, 1, ext.b - 1) ELSE filename
      name == [i \in 1..Len(stem) |-> IF stem[i] \in {"-", "_"} THEN " " ELSE stem[i]]
  IN IF Includes(ToLowerText(name), "chapter") \/ Includes(ToLowerText(name), "chap")
     THEN (IF name = <<>> THEN <<>> ELSE <<ToUpper(name[1])>> \o Tail(name))
     ELSE Chars("Chapter ") \o NumberText(index)

(***************************************************************************)
(* parseEPUB.  The file is [archive, binary]: the archive JSZip loads from *)
(* it (None when it is not a readable zip) and its bytes as a binary       *)
(* string.  The result is [ok, error, metadata, words, chapters]; the      *)
(* text field of the result (the words joined by a space) has no reader    *)
(* and is left out.                                                        *)
(***************************************************************************)
NoMetadata == [title |-> None, author |-> None]

\* a catch block that returns an empty book
EpubFailureSwallowed(error) ==
  [ok |-> TRUE, error |-> "", metadata |-> NoMetadata, words |-> <<>>, chapters |-> <<>>]

\* catch (error) { throw new Error("Failed to parse EPUB: " + error) }
EpubFailure(error) ==
  [ok |-> FALSE, error |-> "Failed to parse EPUB: " \o error, metadata |-> NoMetadata,
   words |-> <<>>, chapters |-> <<>>]

\* no threshold
AcceptsAny(chapterWords) == TRUE

\* a threshold one too low
AcceptsTen(chapterWords) == Len(chapterWords) >= 10

\* chapterWords.length > 10
Accepts(chapterWords) == Len(chapterWords) > 10

\* an index counted from one
StartIndexFromOne(allWords) == Len(allWords) + 1

\* startIndex: allWords.length
StartIndexOf(allWords) == Len(allWords)

\* the words of the chapter in place of the words so far
AddWordsReplacing(allWords, chapterWords) == chapterWords

\* the words of the chapter before the words so far
AddWordsInFront(allWords, chapterWords) == chapterWords \o allWords

\* allWords.concat(chapterWords)
AddWords(allWords, chapterWords) == allWords \o chapterWords

\* a generated title numbered from zero
ChapterTitleFromZero(tocTitles, href, chapters) ==
  IF Truthy(MapGet(tocTitles, href)) THEN MapGet(tocTitles, href).v
  ELSE generateChapterTitle(href, Len(chapters))

\* tocTitles[href] || generateChapterTitle(href, chapters.length + 1)
ChapterTitle(tocTitles, href, chapters) ==
  IF Truthy(MapGet(tocTitles, href)) THEN MapGet(tocTitles, href).v
  ELSE generateChapterTitle(href, Len(chapters) + 1)

\* the tokens of a chapter file
ChapterWords(chapterContent) ==
  CHOOSE chapterWords \in
    {tokenizeWords(normalizedText) :
       normalizedText \in {normalizeText(chapterText) :
                             chapterText \in {stripHtmlTags(chapterContent)}}} : TRUE

\* a spine entry without a chapter file kept as a chapter without words
SpineStepKeepingMissing(zip, opfDir, manifest, tocTitles, spineItem, acc) ==
  LET href == MapGet(manifest, spineItem.id)
      chapterContent == ZipFile(zip, opfDir \o href.v)
      chapterWords == IF Truthy(chapterContent) THEN ChapterWords(chapterContent.v) ELSE <<>>
  IN IF ~Truthy(href) THEN acc
     ELSE IF Truthy(chapterContent) /\ ~Accepts(chapterWords) THEN acc
     ELSE [words |-> AddWords(acc.words, chapterWords),
           chapters |-> Append(acc.chapters,
                               [title |-> ChapterTitle(tocTitles, href.v, acc.chapters),
                                startIndex |-> StartIndexOf(acc.words)])]

\* the words of a chapter that is not accepted kept without a chapter record
SpineStepKeepingShortWords(zip, opfDir, manifest, tocTitles, spineItem, acc) ==
  LET href == MapGet(manifest, spineItem.id)
      chapterContent == ZipFile(zip, opfDir \o href.v)
  IN IF ~Truthy(href) THEN acc
     ELSE IF ~Truthy(chapterContent) THEN acc
     ELSE CHOOSE out \in
       {IF Accepts(chapterWords)
        THEN [words |-> AddWords(acc.words, chapterWords),
              chapters |-> Append(acc.chapters,
                                  [title |-> ChapterTitle(tocTitles, href.v, acc.chapters),
                                   startIndex |-> StartIndexOf(acc.words)])]
        ELSE [acc EXCEPT !.words = AddWords(acc.words, chapterWords)] :
          chapterWords \in {ChapterWords(chapterContent.v)}} : TRUE

\* the body of the spine loop: acc is [words, chapters]
SpineStep(zip, opfDir, manifest, tocTitles, spineItem, acc) ==
  LET href == MapGet(manifest, spineItem.id)
      chapterContent == ZipFile(zip, opfDir \o href.v)
  IN IF ~Truthy(href) THEN acc
     ELSE IF ~Truthy(chapterContent) THEN acc
     ELSE CHOOSE out \in
       {IF Accepts(chapterWords)
        THEN [words |-> AddWords(acc.words, chapterWords),
              chapters |-> Append(acc.chapters,
                                  [title |-> ChapterTitle(tocTitles, href.v, acc.chapters),
                                   startIndex |-> StartIndexOf(acc.words)])]
        ELSE acc : chapterWords \in {ChapterWords(chapterContent.v)}} : TRUE

\* for (const spineItem of spineItems), from the n-th item on
RECURSIVE ReadSpine(_, _, _, _, _, _, _)
ReadSpine(zip, opfDir, manifest, tocTitles, spineItems, n, acc) ==
  IF n > Len(spineItems) THEN acc
  ELSE CHOOSE out \in
    {ReadSpine(zip, opfDir, manifest, tocTitles, spineItems, n + 1, next) :
       next \in {SpineStep(zip, opfDir, manifest, tocTitles, spineItems[n], acc)}} : TRUE

\* chapters.length === 0 && allWords.length > 0
WithStartChapter(acc) ==
  IF Len(acc.chapters) = 0 /\ Len(acc.words) > 0
  THEN [acc EXCEPT !.chapters = <<[title |-> Chars("Start"), startIndex |-> 0]>>]
  ELSE acc

\* the part of parseEPUB after the OPF has been read
ParseOpf(zip, opfDir, opfContent) ==
  CHOOSE out \in
    {[ok |-> TRUE, error |-> "", metadata |-> extractMetadata(opfContent),
      words |-> acc.words, chapters |-> acc.chapters] :
       acc \in {WithStartChapter(
                  ReadSpine(zip, opfDir, extractManifest(opfContent),
                            extractTOCTitles(zip, opfDir, opfContent),
                            extractSpine(opfContent), 1,
                            [words |-> <<>>, chapters |-> <<>>]))}} : TRUE

parseEPUB(file) ==
  IF ~file.archive.some THEN EpubFailure("Error: Corrupted zip")
  ELSE LET zip == file.archive.v
           containerXml == ZipFile(zip, Chars("META-INF/container.xml"))
           opfPath == extractOpfPath(containerXml.v)
           opfContent == ZipFile(zip, opfPath.path)
       IN IF ~Truthy(containerXml)
          THEN EpubFailure("Error: Invalid EPUB: Missing container.xml")
          ELSE IF ~opfPath.ok
          THEN EpubFailure("Error: Could not find OPF path in container.xml")
          ELSE IF ~Truthy(opfContent)
          THEN EpubFailure("Error: Invalid EPUB: Missing OPF file")
          ELSE ParseOpf(zip, DirOf(opfPath.path), opfContent.v)

(***************************************************************************)
(* The documents the user can pick                                         *)
(***************************************************************************)
MaxSpine == 3

SpineIds == {"a", "b", "s", "m", "g"}

Entry(path, str) == [path |-> Chars(path), data |-> Chars(str)]

RECURSIVE Flatten(_)
Flatten(seqs) == IF seqs = <<>> THEN <<>> ELSE Head(seqs) \o Flatten(Tail(seqs))

ContainerXml ==
  "<container><rootfiles><rootfile full-path=\"OEBPS/content.opf\"/></rootfiles></container>"

\* a has a title in the NCX and 11 tokens; b has no title, a script, a word
\* hyphenated over a line break, a number and an entity, and 12 tokens; s has a
\* title and 10 tokens next to three numbers; m is in no manifest item; g is in
\* the manifest and has no file
OpfXml(spine) ==
  Chars("<package><metadata><dc:title> Tale </dc:title><dc:creator>Ann</dc:creator></metadata>")
  \o Chars("<manifest><item id=\"ncx\" href=\"toc.ncx\" media-type=\"application/x-dtbncx+xml\"/>")
  \o Chars("<item id=\"a\" href=\"a.xhtml\"/><item href=\"b.xhtml\" id=\"b\"/>")
  \o Chars("<item id=\"s\" href=\"s.xhtml\"/><item id=\"g\" href=\"g.xhtml\"/></manifest><spine>")
  \o Flatten([n \in 1..Len(spine) |-> Chars("<itemref idref=\"" \o spine[n] \o "\"/>")])
  \o Chars("</spine></package>")

NcxXml ==
  "<ncx><navMap><navPoint id=\"n1\"><navLabel><text>One</text></navLabel><content src=\"a.xhtml\"/></navPoint>"
  \o "<navPoint id=\"n2\"><navLabel><text>Short</text></navLabel><content src=\"s.xhtml#top\"/></navPoint></navMap></ncx>"

ChapterFiles ==
  {Entry("OEBPS/a.xhtml", "<html><body><p>a b c d e f g h i j k</p></body></html>"),
   Entry("OEBPS/b.xhtml",
         "<html><script>x y</script><body><p>l m n o p q r s t-\nu v w 42 &amp; x</p></body></html>"),
   Entry("OEBPS/s.xhtml", "<html><body><p>1 2 3 a b c d e f g h i j</p></body></html>")}

\* what the documents are, for the properties: the tokens and the title of
\* the chapter file of a spine id (no tokens: the entry has no chapter file)
Texts(ws) == [n \in 1..Len(ws) |-> Chars(ws[n])]

TokensOf(id) ==
  CASE id = "a" -> Texts(<<"a", "b", "c", "d", "e", "f", "g", "h", "i", "j", "k">>)
    [] id = "b" -> Texts(<<"l", "m", "n", "o", "p", "q", "r", "s", "tu", "v", "w", "&", "x">>)
    [] id = "s" -> Texts(<<"a", "b", "c", "d", "e", "f", "g", "h", "i", "j">>)
    [] OTHER -> <<>>

Spines == UNION {[1..n -> SpineIds] : n \in 0..MaxSpine}

EpubFile(entries) == [archive |-> Some(entries), binary |-> <<>>]

EpubDoc(kind, spine, entries) ==
  [name |-> Chars("my_first-book.epub"), type |-> "epub", kind |-> kind, spine |-> spine,
   file |-> EpubFile(entries)]

GoodEpub(spine) ==
  EpubDoc("epub", spine,
          {Entry("META-INF/container.xml", ContainerXml), Entry("OEBPS/toc.ncx", NcxXml),
           [path |-> Chars("OEBPS/content.opf"), data |-> OpfXml(spine)]} \cup ChapterFiles)

\* the OPF of a book that also has an EPUB3 nav document
NavOpfXml(spine) ==
  Chars("<package><metadata><dc:title> Tale </dc:title><dc:creator>Ann</dc:creator></metadata>")
  \o Chars("<manifest><item id=\"ncx\" href=\"toc.ncx\" media-type=\"application/x-dtbncx+xml\"/>")
  \o Chars("<item id=\"nav\" properties=\"nav\" href=\"nav.xhtml\"/>")
  \o Chars("<item id=\"a\" href=\"a.xhtml\"/><item href=\"b.xhtml\" id=\"b\"/>")
  \o Chars("<item id=\"s\" href=\"s.xhtml\"/><item id=\"g\" href=\"g.xhtml\"/></manifest><spine>")
  \o Flatten([n \in 1..Len(spine) |-> Chars("<itemref idref=\"" \o spine[n] \o "\"/>")])
  \o Chars("</spine></package>")

\* the nav document: under kind "epubnav" it titles a.xhtml, which the NCX
\* titles too, and b.xhtml, which the NCX does not; under "epubnavb" only b.xhtml
NavXml(kind) ==
  "<html><body><nav epub:type=\"toc\"><ol>"
  \o (IF kind = "epubnav" THEN "<li><a href=\"a.xhtml#top\">First</a></li>" ELSE "")
  \o "<li><a href=\"b.xhtml\"> Second </a></li></ol></nav></body></html>"

NavKinds == {"epubnav", "epubnavb"}

NavEpub(kind, spine) ==
  EpubDoc(kind, spine,
          {Entry("META-INF/container.xml", ContainerXml), Entry("OEBPS/toc.ncx", NcxXml),
           Entry("OEBPS/nav.xhtml", NavXml(kind)),
           [path |-> Chars("OEBPS/content.opf"), data |-> NavOpfXml(spine)]} \cup ChapterFiles)

\* the archive has no META-INF/container.xml
NoContainerEpub ==
  EpubDoc("nocontainer", <<"a">>,
          {[path |-> Chars("OEBPS/content.opf"), data |-> OpfXml(<<"a">>)]} \cup ChapterFiles)

\* container.xml has no full-path attribute
NoFullPathEpub ==
  EpubDoc("nofullpath", <<"a">>,
          {Entry("META-INF/container.xml", "<container><rootfiles><rootfile/></rootfiles></container>"),
           [path |-> Chars("OEBPS/content.opf"), data |-> OpfXml(<<"a">>)]} \cup ChapterFiles)

\* the OPF file container.xml names is not in the archive
NoOpfEpub ==
  EpubDoc("noopf", <<"a">>, {Entry("META-INF/container.xml", ContainerXml)} \cup ChapterFiles)

\* the file is not a zip archive
CorruptEpub ==
  [name |-> Chars("broken.epub"), type |-> "epub", kind |-> "corrupt", spine |-> <<>>,
   file |-> [archive |-> None, binary |-> Chars("not a zip")]]

BrokenEpubs == {NoContainerEpub, NoFullPathEpub, NoOpfEpub, CorruptEpub}

\* a PDF with one text block of 73 characters
TextPdf ==
  [name |-> Chars("the-fox.pdf"), type |-> "pdf", kind |-> "pdftext", spine |-> <<>>,
   file |-> [archive |-> None,
             binary |-> Chars("%PDF-1.4\nBT /F1 12 Tf (The quick brown fox jumps over the lazy dog and "
                              \o "runs far away from here) Tj ET\n%%EOF")]]

\* a PDF whose text is two copies of a legal notice of 54 characters and a line
\* of 14: 138 characters as extracted, 30 once normalized
LegalPdf ==
  [name |-> Chars("tale.pdf"), type |-> "pdf", kind |-> "pdflegal", spine |-> <<>>,
   file |-> [archive |-> None,
             binary |-> Chars("%PDF-1.4\nBT (\\nCopyright 2024 by the author, all rights are reserved"
                              \o "\\nA tale of nine) Tj ET\n%%EOF")]]

\* a scanned PDF: a page label is all its text
ScannedPdf ==
  [name |-> Chars("scan.pdf"), type |-> "pdf", kind |-> "pdfscan", spine |-> <<>>,
   file |-> [archive |-> None,
             binary |-> Chars("%PDF-1.4\nBT (Scan of page 1) Tj ET\nstream\n#$!@\nendstream\n%%EOF")]]

\* the OPF of a book whose metadata element is the one given
OpfXmlWith(metadata, spine) ==
  Chars("<package><metadata>" \o metadata \o "</metadata>")
  \o Chars("<manifest><item id=\"ncx\" href=\"toc.ncx\" media-type=\"application/x-dtbncx+xml\"/>")
  \o Chars("<item id=\"a\" href=\"a.xhtml\"/><item href=\"b.xhtml\" id=\"b\"/>")
  \o Chars("<item id=\"s\" href=\"s.xhtml\"/><item id=\"g\" href=\"g.xhtml\"/></manifest><spine>")
  \o Flatten([n \in 1..Len(spine) |-> Chars("<itemref idref=\"" \o spine[n] \o "\"/>")])
  \o Chars("</spine></package>")

\* a book without dc:title
NoTitleEpub(spine) ==
  EpubDoc("epubnotitle", spine,
          {Entry("META-INF/container.xml", ContainerXml), Entry("OEBPS/toc.ncx", NcxXml),
           [path |-> Chars("OEBPS/content.opf"),
            data |-> OpfXmlWith("<dc:creator>Ann</dc:creator>", spine)]} \cup ChapterFiles)

\* a book whose dc:title is blank, in a file whose name has no word
BlankTitleEpub(spine) ==
  [EpubDoc("epubblank", spine,
           {Entry("META-INF/container.xml", ContainerXml), Entry("OEBPS/toc.ncx", NcxXml),
            [path |-> Chars("OEBPS/content.opf"),
             data |-> OpfXmlWith("<dc:title>  </dc:title>", spine)]} \cup ChapterFiles)
   EXCEPT !.name = Chars("__.epub")]

\* a PDF whose only line of text starts with the word Pages
PagesPdf ==
  [name |-> Chars("the-fox.pdf"), type |-> "pdf", kind |-> "pdfpages", spine |-> <<>>,
   file |-> [archive |-> None,
             binary |-> Chars("%PDF-1.4\nBT (Pages from the diary of a quick brown fox, kept "
                              \o "over many years) Tj ET\n%%EOF")]]

\* a document is named by its kind and, an EPUB in good order, its spine
Key(kind, spine) == [kind |-> kind, spine |-> spine]

Document(key) ==
  CASE key.kind = "epub" -> GoodEpub(key.spine)
    [] key.kind \in NavKinds -> NavEpub(key.kind, key.spine)
    [] key.kind = "nocontainer" -> NoContainerEpub
    [] key.kind = "nofullpath" -> NoFullPathEpub
    [] key.kind = "noopf" -> NoOpfEpub
    [] key.kind = "corrupt" -> CorruptEpub
    [] key.kind = "pdftext" -> TextPdf
    [] key.kind = "pdflegal" -> LegalPdf
    [] key.kind = "pdfscan" -> ScannedPdf
    [] key.kind = "epubnotitle" -> NoTitleEpub(key.spine)
    [] key.kind = "epubblank" -> BlankTitleEpub(key.spine)
    [] key.kind = "pdfpages" -> PagesPdf

\* document.type
TypeOf(key) ==
  IF key.kind \in {"pdftext", "pdflegal", "pdfscan", "pdfpages"} THEN "pdf" ELSE "epub"

OtherKinds ==
  {"nocontainer", "nofullpath", "noopf", "corrupt", "pdftext", "pdflegal", "pdfscan"}

\* the documents of the runs of one import and of the runs of concurrent imports
ParseLibrary ==
  {Key("epub", spine) : spine \in Spines} \cup {Key(kind, <<>>) : kind \in OtherKinds}
  \cup {Key(kind, <<"a", "b">>) : kind \in NavKinds}

SmallLibrary == {Key("epub", <<"s", "a">>), Key("pdflegal", <<>>), Key("pdfscan", <<>>)}

(***************************************************************************)
(* PDF parser                                                              *)
(***************************************************************************)
\* the characters with the codes 32 to 126 (the grave accent, which a string
\* of this language cannot hold, by its code)
Ascii ==
  Chars(" !\"#$%&'()*+,-./0123456789:;<=>?@ABCDEFGHIJKLMNOPQRSTUVWXYZ[\\]^_")
  \o <<Coded(96)>> \o Chars("abcdefghijklmnopqrstuvwxyz{|}~")

DigitValue(c) == (CHOOSE i \in 1..16 : Chars("0123456789abcdef")[i] = ToLower(c)) - 1

\* parseInt(digits, radix) of a text of digits of that radix
RECURSIVE ParseDigits(_, _)
ParseDigits(digits, radix) ==
  IF digits = <<>> THEN 0
  ELSE ParseDigits(SubSeq(digits, 1, Len(digits) - 1), radix) * radix
       + DigitValue(digits[Len(digits)])

\* String.prototype.charCodeAt
CodeOf(c) ==
  CASE c = "\t" -> 9
    [] c = "\n" -> 10
    [] c = "\r" -> 13
    [] \E i \in DOMAIN Ascii : Ascii[i] = c -> 31 + (CHOOSE i \in DOMAIN Ascii : Ascii[i] = c)
    [] OTHER -> ParseDigits(Chars(SubSeq(c, 2, Len(c))), 10)

\* String.fromCharCode
CharOf(code) ==
  CASE code = 9 -> "\t"
    [] code = 10 -> "\n"
    [] code = 13 -> "\r"
    [] code >= 32 /\ code <= 126 -> Ascii[code - 31]
    [] OTHER -> Coded(code)

\* parseInt(oct, 8) of three decimal digits: the digits before the first that
\* is not octal; none gives NaN, and String.fromCharCode(NaN) is the character 0
OctalChar(oct) ==
  LET bad == {i \in 1..Len(oct) : oct[i] \in {"8", "9"}}
      digits == IF bad = {} THEN oct ELSE SubSeq(oct, 1, SetMin(bad) - 1)
  IN CharOf(ParseDigits(digits, 8))

\* .replace(/\\(\d{3})/g, (_, oct) => String.fromCharCode(parseInt(oct, 8)))
RECURSIVE ReplaceOctalFrom(_, _, _, _)
ReplaceOctalFrom(s, ms, n, pos) ==
  IF n > Len(ms) THEN SubSeq(s, pos, Len(s))
  ELSE SubSeq(s, pos, ms[n].b - 1) \o <<OctalChar(GroupText(s, ms[n], 1))>>
       \o ReplaceOctalFrom(s, ms, n + 1, ms[n].p)

ReplaceOctal(s) ==
  CHOOSE out \in
    {ReplaceOctalFrom(s, ms, 1, 1) :
       ms \in {Matches(Cat(<<Lit("\\"), Grp(1, Rep(Set(Digit), 3, 3, TRUE))>>), s)}} : TRUE

decodePDFString(str) ==
  CHOOSE out \in
    {ReplaceOctal(s6) :
       s6 \in {ReplaceAll(Lit("\\\\"), s5, Put("\\")) :
       s5 \in {ReplaceAll(Lit("\\)"), s4, Put(")")) :
       s4 \in {ReplaceAll(Lit("\\("), s3, Put("(")) :
       s3 \in {ReplaceAll(Lit("\\t"), s2, Put("\t")) :
       s2 \in {ReplaceAll(Lit("\\r"), s1, Put("\r")) :
       s1 \in {ReplaceAll(Lit("\\n"), str, Put("\n"))}}}}}}} : TRUE

\* the characters of the two-digit groups of hex (the last may have one digit)
\* whose code is not 0
RECURSIVE decodeHexString(_)
decodeHexString(hex) ==
  IF hex = <<>> THEN <<>>
  ELSE LET pair == SubSeq(hex, 1, IF Len(hex) < 2 THEN Len(hex) ELSE 2)
           charCode == ParseDigits(pair, 16)
       IN (IF charCode > 0 THEN <<CharOf(charCode)>> ELSE <<>>)
          \o decodeHexString(SubSeq(hex, Len(pair) + 1, Len(hex)))

IsPrintableCode(code) ==
  \/ code >= 32 /\ code <= 126
  \/ code >= 160 /\ code <= 255
  \/ code >= 1024 /\ code <= 1279
  \/ code >= 192 /\ code <= 591

\* printable / text.length > 0.7
isPrintableText(text) ==
  /\ Len(text) > 0
  /\ 10 * Cardinality({i \in 1..Len(text) : IsPrintableCode(CodeOf(text[i]))}) > 7 * Len(text)

\* a parenthesised string without a closing parenthesis inside, in group 1
\* its content, which may be empty unless some
ParenString(some) ==
  Cat(<<Lit("("), Grp(1, Rep(NotSet({")"}), IF some THEN 1 ELSE 0, -1, TRUE)), Lit(")")>>)

\* the decoded text of group 1 of each of the matches ms of s, joined
RECURSIVE DecodedGroups(_, _, _)
DecodedGroups(s, ms, n) ==
  IF n > Len(ms) THEN <<>>
  ELSE decodePDFString(GroupText(s, ms[n], 1)) \o DecodedGroups(s, ms, n + 1)

\* the strings of the arrays ms[n..] of textBlock, decoded and joined
RECURSIVE DecodedArrays(_, _, _)
DecodedArrays(textBlock, ms, n) ==
  IF n > Len(ms) THEN <<>>
  ELSE (CHOOSE out \in
          {DecodedGroups(arrayContent, Matches(ParenString(FALSE), arrayContent), 1) :
             arrayContent \in {GroupText(textBlock, ms[n], 1)}} : TRUE)
       \o DecodedArrays(textBlock, ms, n + 1)

extractTextOperators(textBlock) ==
  \* the strings before a Tj operator, then the strings of the arrays before a TJ
  DecodedGroups(textBlock,
                Matches(Cat(<<ParenString(FALSE), Star(Set(Space)), Lit("Tj")>>), textBlock), 1)
  \o DecodedArrays(textBlock,
                   Matches(Cat(<<Lit("["), Grp(1, LazyStar(Dot)), Lit("]"), Star(Set(Space)),
                                 Lit("TJ")>>), textBlock), 1)

\* the text parts of the BT ... ET blocks ms[n..] of binary
RECURSIVE BlockParts(_, _, _)
BlockParts(binary, ms, n) ==
  IF n > Len(ms) THEN <<>>
  ELSE (CHOOSE out \in
          {IF textContent # <<>> THEN <<textContent>> ELSE <<>> :
             textContent \in {extractTextOperators(GroupText(binary, ms[n], 1))}} : TRUE)
       \o BlockParts(binary, ms, n + 1)

\* the text parts of the parenthesised strings ms[n..] of binary
RECURSIVE StringParts(_, _, _)
StringParts(binary, ms, n) ==
  IF n > Len(ms) THEN <<>>
  ELSE (CHOOSE out \in
          {IF isPrintableText(content) /\ Len(content) > 2
           THEN <<decodePDFString(content)>> ELSE <<>> :
             content \in {GroupText(binary, ms[n], 1)}} : TRUE)
       \o StringParts(binary, ms, n + 1)

\* the text parts of the hex strings ms[n..] of binary
RECURSIVE HexParts(_, _, _)
HexParts(binary, ms, n) ==
  IF n > Len(ms) THEN <<>>
  ELSE (CHOOSE out \in
          {IF Len(hexContent) > 4
           THEN (CHOOSE part \in
                   {IF isPrintableText(decoded) /\ Len(decoded) > 2 THEN <<decoded>> ELSE <<>> :
                      decoded \in {decodeHexString(hexContent)}} : TRUE)
           ELSE <<>> :
             hexContent \in {GroupText(binary, ms[n], 1)}} : TRUE)
       \o HexParts(binary, ms, n + 1)

\* Array.prototype.join(" ")
RECURSIVE JoinSpace(_)
JoinSpace(parts) ==
  IF parts = <<>> THEN <<>>
  ELSE IF Len(parts) = 1 THEN parts[1]
  ELSE parts[1] \o <<" ">> \o JoinSpace(Tail(parts))

extractTextFromPDFBinary(binary) ==
  \* the text blocks between BT and ET, then the parenthesised strings, then
  \* the hex strings between angle brackets
  JoinSpace(
    BlockParts(binary,
               Matches(Cat(<<Lit("BT"), Star(Set(Space)), Grp(1, LazyStar(AnyCh)),
                             Star(Set(Space)), Lit("ET")>>), binary), 1)
    \o StringParts(binary, Matches(ParenString(TRUE), binary), 1)
    \o HexParts(binary,
                Matches(Cat(<<Lit("<"), Grp(1, Plus(Set(Range(Chars("0123456789ABCDEFabcdef"))))),
                              Lit(">")>>), binary), 1))

\* extractTitle(text) with the default maxLength of 50: the first line, trimmed,
\* that is neither short nor numbering nor metadata
IsTitleLine(line) ==
  /\ Len(line) >= 3
  /\ ~Test(Cat(<<Bos, Plus(Set(Digit \cup {"[", "]", "(", ")"} \cup Dashes)), Eos>>), line)
  /\ ~Test(Cat(<<Bos, Alt(<<LitCi("page"), LitCi("chapter"), LitCi("copyright")>>)>>), line)

extractTitle(text) ==
  CHOOSE out \in
    {IF candidates = <<>> THEN Chars("Untitled")
     ELSE IF Len(candidates[1]) > 50 THEN SubSeq(candidates[1], 1, 47) \o Chars("...")
     ELSE candidates[1] :
       candidates \in
         {SelectSeq([n \in 1..Len(lines) |-> Trim(lines[n])], IsTitleLine) :
            lines \in {Split(Lit("\n"), text)}}} : TRUE

ImageBasedError == "Could not extract text from PDF. It may be a scanned/image-based document."

PdfFailure(error) == [ok |-> FALSE, error |-> error, title |-> <<>>, words |-> <<>>]

\* !extractedText || extractedText.trim().length < 50
TooLittleText(extractedText) == extractedText = <<>> \/ Len(Trim(extractedText)) < 50

\* the result is [ok, error, title, words]; the text field of the result (the
\* normalized text) has no reader and is left out
parsePDF(file) ==
  CHOOSE out \in
    {IF TooLittleText(extractedText)
     THEN PdfFailure(ImageBasedError)
     ELSE CHOOSE content \in
       {[ok |-> TRUE, error |-> "", title |-> extractTitle(normalizedText),
         words |-> tokenizeWords(normalizedText)] :
          normalizedText \in {normalizeText(extractedText)}} : TRUE :
       extractedText \in {extractTextFromPDFBinary(file.binary)}} : TRUE

(***************************************************************************)
(* Book import service                                                     *)
(***************************************************************************)
\* .replace(/\b\w/g, (c) => c.toUpperCase())
CapitalizeWords(name) ==
  CHOOSE out \in
    {[i \in 1..Len(name) |-> IF i \in starts THEN ToUpper(name[i]) ELSE name[i]] :
       starts \in {MatchStarts(Cat(<<WordB, Set(WordCh)>>), name)}} : TRUE

extractTitleFromFilename(filename) ==
  CHOOSE out \in
    {IF name = <<>> THEN Chars("Untitled") ELSE name :
       name \in {CapitalizeWords(spaced) :
       spaced \in {Trim(ReplaceAll(Plus(Set(Space)), dashed, Put(" "))) :
       dashed \in {ReplaceAll(Set({"_", "-"}), stem, Put(" ")) :
       stem \in {ReplaceAll(Cat(<<Lit("."), Alt(<<LitCi("epub"), LitCi("pdf")>>), Eos>>),
                            filename, Remove)}}}}} : TRUE

\* lines 50 to 60 of importBook: [ok, error, title, author, words, chapters]
ImportContent(document) ==
  IF document.type = "epub"
  THEN CHOOSE out \in
    {[ok |-> content.ok, error |-> content.error,
      title |-> IF Truthy(content.metadata.title) THEN content.metadata.title.v
                ELSE extractTitleFromFilename(document.name),
      author |-> content.metadata.author, words |-> content.words,
      chapters |-> Some(content.chapters)] : content \in {parseEPUB(document.file)}} : TRUE
  ELSE CHOOSE out \in
    {[ok |-> content.ok, error |-> content.error,
      title |-> IF content.title # <<>> THEN content.title
                ELSE extractTitleFromFilename(document.name),
      author |-> None, words |-> content.words, chapters |-> None] :
       content \in {parsePDF(document.file)}} : TRUE

(***************************************************************************)
(* The library: the stored records, the word caches and the copied files,  *)
(* the imports in progress and the reading screen saving its progress.     *)
(* An import or an update is a chain of asynchronous calls: each action is *)
(* the code run between two of its suspensions, and other chains run in    *)
(* between.  The book id of the import in slot p, generateBookId(), is p:  *)
(* two calls give two ids.  Reads of the stored records do not fail.       *)
(***************************************************************************)
MaxImports == 2

MaxUpdates == 1

MaxProgress == 2

MaxClock == 2

Slots == 1..MaxImports

VARIABLES books, wordsCache, files, pc, doc, progress, book, words, snapshot, error,
          upd, now, library, importsLeft, updatesLeft

\* a text under normalization: trail holds the text given and the text after
\* each call made on it, applied the functions called, options the options of
\* normalizeText, tokenList what tokenizeWords returned
VARIABLES trail, applied, options, tokenList

\* the deletion of a book asked for on the library screen (del, and how many
\* more may be asked for) and the reading screen (reader)
VARIABLES del, deletesLeft, reader

libraryVars == <<books, wordsCache, files, pc, doc, progress, book, words, snapshot, error,
                 upd, now, library, importsLeft, updatesLeft>>

textVars == <<trail, applied, options, tokenList>>

screenVars == <<del, deletesLeft, reader>>

vars == <<libraryVars, textVars, screenVars>>

NoDoc == Key("none", <<>>)

NoBook ==
  [id |-> 0, title |-> <<>>, author |-> None, type |-> "", filePath |-> [id |-> 0, ext |-> ""],
   wordCount |-> 0, currentWord |-> 0, addedAt |-> 0, lastReadAt |-> None, chapters |-> None]

IdleUpdate ==
  [pc |-> "idle", bookId |-> 0, currentWord |-> 0, lastReadAt |-> 0, index |-> 0,
   snapshot |-> <<>>]

\* nothing stored, no import and no save of progress under way
EmptyLibrary(docs, imports) ==
  /\ books = <<>>
  /\ wordsCache = EmptyMap
  /\ files = {}
  /\ pc = [p \in Slots |-> "idle"]
  /\ doc = [p \in Slots |-> NoDoc]
  /\ progress = [p \in Slots |-> <<>>]
  /\ book = [p \in Slots |-> NoBook]
  /\ words = [p \in Slots |-> <<>>]
  /\ snapshot = [p \in Slots |-> <<>>]
  /\ error = [p \in Slots |-> ""]
  /\ upd = IdleUpdate
  /\ now = 0
  /\ library = docs
  /\ importsLeft = imports
  /\ updatesLeft = MaxUpdates

\* the text t given, no function called on it yet
TextGiven(t) ==
  /\ trail = <<t>>
  /\ applied = <<>>
  /\ options = DEFAULT_OPTIONS
  /\ tokenList = <<>>

\* no deletion under way
IdleDelete == [pc |-> "idle", bookId |-> 0, snapshot |-> <<>>, failed |-> {}]

\* the reading screen before loadBookData has set anything
ClosedReader ==
  [pc |-> "closed", bookId |-> 0, book |-> NoBook, words |-> <<>>, currentIndex |-> 0,
   isPlaying |-> FALSE, interval |-> FALSE, error |-> ""]

\* no deletion asked for, the reading screen not open
ScreensIdle(deletes) ==
  /\ del = IdleDelete
  /\ deletesLeft = deletes
  /\ reader = ClosedReader

InitWith(docs, imports) == EmptyLibrary(docs, imports) /\ TextGiven(<<>>) /\ ScreensIdle(0)

Init == InitWith(SmallLibrary, MaxImports)

InitParse == InitWith(ParseLibrary, 1)

\* Date.now(): a later call gives a later time, up to the last time told apart
Clock == {IF now < MaxClock THEN now + 1 ELSE now}

\* onProgress?.({stage, message})
Emit(p, stage) == progress' = [progress EXCEPT ![p] = Append(@, stage)]

\* catch (error) { throw error }: the import ends with the error, here its message
Throw(p, e) ==
  /\ pc' = [pc EXCEPT ![p] = "failed"]
  /\ error' = [error EXCEPT ![p] = e]

\* `${BOOK_DIR}${bookId}.${extension}`, the id that of saveDocumentToLibrary
DestPath(p, type) == [id |-> p, ext |-> IF type = "epub" THEN "epub" ELSE "pdf"]

\* the user picks document d: importBook runs to its first suspension
ImportStart(p, d) ==
  /\ pc[p] = "idle"
  /\ \A q \in Slots : q < p => pc[q] # "idle"
  /\ importsLeft > 0
  /\ d \in library
  /\ importsLeft' = importsLeft - 1
  /\ doc' = [doc EXCEPT ![p] = d]
  /\ Emit(p, "copying")
  /\ pc' = [pc EXCEPT ![p] = "copying"]
  /\ UNCHANGED <<books, wordsCache, files, book, words, snapshot, error, upd, now, library,
                 updatesLeft>>
  /\ UNCHANGED <<textVars, screenVars>>

\* saveDocumentToLibrary has copied the file
CopyDone(p) ==
  /\ pc[p] = "copying"
  /\ files' = files \cup {[path |-> DestPath(p, TypeOf(doc[p])), doc |-> doc[p]]}
  /\ Emit(p, "parsing")
  /\ pc' = [pc EXCEPT ![p] = "parsing"]
  /\ UNCHANGED <<books, wordsCache, doc, book, words, snapshot, error, upd, now, library,
                 importsLeft, updatesLeft>>
  /\ UNCHANGED <<textVars, screenVars>>

\* the next stage announced before the copy is awaited
CopyFailAnnounced(p) ==
  /\ pc[p] = "copying"
  /\ Emit(p, "parsing")
  /\ Throw(p, "copy failed")
  /\ UNCHANGED <<books, wordsCache, files, doc, book, words, snapshot, upd, now,
                 library, importsLeft, updatesLeft>>
  /\ UNCHANGED <<textVars, screenVars>>

\* saveDocumentToLibrary has failed
CopyFail(p) ==
  /\ pc[p] = "copying"
  /\ Throw(p, "copy failed")
  /\ UNCHANGED <<books, wordsCache, files, doc, progress, book, words, snapshot, upd, now,
                 library, importsLeft, updatesLeft>>
  /\ UNCHANGED <<textVars, screenVars>>

\* the word count taken as the index of the last word
NewBookCountingFromZero(p, type, content, time) ==
  [id |-> p, title |-> content.title, author |-> content.author, type |-> type,
   filePath |-> DestPath(p, type), wordCount |-> Len(content.words) - 1, currentWord |-> 0,
   addedAt |-> time, lastReadAt |-> None, chapters |-> content.chapters]

\* the book record importBook builds from what the parser returned
NewBook(p, type, content, time) ==
  [id |-> p, title |-> content.title, author |-> content.author, type |-> type,
   filePath |-> DestPath(p, type), wordCount |-> Len(content.words), currentWord |-> 0,
   addedAt |-> time, lastReadAt |-> None, chapters |-> content.chapters]

\* the parser has read the copied file: it returned, or it threw
Parse(p) ==
  /\ pc[p] = "parsing"
  /\ \E copy \in files, time \in Clock :
       /\ copy.path = DestPath(p, TypeOf(doc[p]))
       /\ \E content \in {ImportContent(Document(copy.doc))} :
            IF content.ok
            THEN /\ Emit(p, "saving")
                 /\ book' = [book EXCEPT ![p] = NewBook(p, TypeOf(doc[p]), content, time)]
                 /\ words' = [words EXCEPT ![p] = content.words]
                 /\ now' = time
                 /\ pc' = [pc EXCEPT ![p] = "saveRead"]
                 /\ UNCHANGED error
            ELSE /\ Throw(p, content.error)
                 /\ UNCHANGED <<progress, book, words, now>>
  /\ UNCHANGED <<books, wordsCache, files, doc, snapshot, upd, library, importsLeft,
                 updatesLeft>>
  /\ UNCHANGED <<textVars, screenVars>>

\* saveBook: getAllBooks has returned the stored records
SaveRead(p) ==
  /\ pc[p] = "saveRead"
  /\ snapshot' = [snapshot EXCEPT ![p] = books]
  /\ pc' = [pc EXCEPT ![p] = "saveWrite"]
  /\ UNCHANGED <<books, wordsCache, files, doc, progress, book, words, error, upd, now,
                 library, importsLeft, updatesLeft>>
  /\ UNCHANGED <<textVars, screenVars>>

\* saveBook: books.push(book) and setItem has stored the records
SaveWrite(p) ==
  /\ pc[p] = "saveWrite"
  /\ books' = Append(snapshot[p], book[p])
  /\ pc' = [pc EXCEPT ![p] = "cacheWrite"]
  /\ UNCHANGED <<wordsCache, files, doc, progress, book, words, snapshot, error, upd, now,
                 library, importsLeft, updatesLeft>>
  /\ UNCHANGED <<textVars, screenVars>>

\* saveBook: setItem has failed
SaveFail(p) ==
  /\ pc[p] = "saveWrite"
  /\ Throw(p, "setItem failed")
  /\ UNCHANGED <<books, wordsCache, files, doc, progress, book, words, snapshot, upd, now,
                 library, importsLeft, updatesLeft>>
  /\ UNCHANGED <<textVars, screenVars>>

\* saveWordsCache has written the words, and importBook returns the book
CacheWrite(p) ==
  /\ pc[p] = "cacheWrite"
  /\ wordsCache' = MapSet(wordsCache, book[p].id, words[p])
  /\ pc' = [pc EXCEPT ![p] = "returned"]
  /\ UNCHANGED <<books, files, doc, progress, book, words, snapshot, error, upd, now,
                 library, importsLeft, updatesLeft>>
  /\ UNCHANGED <<textVars, screenVars>>

\* saveWordsCache has failed
CacheFail(p) ==
  /\ pc[p] = "cacheWrite"
  /\ Throw(p, "write failed")
  /\ UNCHANGED <<books, wordsCache, files, doc, progress, book, words, snapshot, upd, now,
                 library, importsLeft, updatesLeft>>
  /\ UNCHANGED <<textVars, screenVars>>

\* books.find((b) => b.id === id) finds a record
HasRecord(id) == \E i \in DOMAIN books : books[i].id = id

\* books.findIndex((b) => b.id === bookId), from 1, 0 when there is none
FindIndex(list, bookId) ==
  IF \E i \in DOMAIN list : list[i].id = bookId
  THEN SetMin({i \in DOMAIN list : list[i].id = bookId})
  ELSE 0

\* the reading screen, which has loaded the record and the words of book b and
\* moved to the word currentWord, saves the position: updateProgress runs to its
\* first suspension
UpdateStart(b, currentWord) ==
  /\ upd.pc = "idle"
  /\ updatesLeft > 0
  /\ HasRecord(b)
  /\ b \in DOMAIN wordsCache
  /\ currentWord > 0 /\ currentWord < Len(wordsCache[b])
  /\ \E time \in Clock :
       /\ upd' = [IdleUpdate EXCEPT !.pc = "read", !.bookId = b, !.currentWord = currentWord,
                                    !.lastReadAt = time]
       /\ now' = time
  /\ updatesLeft' = updatesLeft - 1
  /\ UNCHANGED <<books, wordsCache, files, pc, doc, progress, book, words, snapshot, error,
                 library, importsLeft>>
  /\ UNCHANGED <<textVars, screenVars>>

\* updateBook: getAllBooks has returned; without a record of that id it is over
UpdateRead ==
  /\ upd.pc = "read"
  /\ upd' = IF FindIndex(books, upd.bookId) > 0
            THEN [upd EXCEPT !.pc = "write", !.index = FindIndex(books, upd.bookId),
                             !.snapshot = books]
            ELSE IdleUpdate
  /\ UNCHANGED <<books, wordsCache, files, pc, doc, progress, book, words, snapshot, error,
                 now, library, importsLeft, updatesLeft>>
  /\ UNCHANGED <<textVars, screenVars>>

\* { ...books[index], ...updates }
Updated(record, currentWord, lastReadAt) ==
  [record EXCEPT !.currentWord = currentWord, !.lastReadAt = Some(lastReadAt)]

\* updateBook: setItem has stored the records
UpdateWrite ==
  /\ upd.pc = "write"
  /\ books' = [upd.snapshot EXCEPT ![upd.index] = Updated(@, upd.currentWord, upd.lastReadAt)]
  /\ upd' = IdleUpdate
  /\ UNCHANGED <<wordsCache, files, pc, doc, progress, book, words, snapshot, error, now,
                 library, importsLeft, updatesLeft>>
  /\ UNCHANGED <<textVars, screenVars>>

\* updateBook: setItem has failed
UpdateFail ==
  /\ upd.pc = "write"
  /\ upd' = IdleUpdate
  /\ UNCHANGED <<books, wordsCache, files, pc, doc, progress, book, words, snapshot, error,
                 now, library, importsLeft, updatesLeft>>
  /\ UNCHANGED <<textVars, screenVars>>

Next ==
  \/ \E p \in Slots, d \in library : ImportStart(p, d)
  \/ \E p \in Slots : CopyDone(p)
  \/ \E p \in Slots : CopyFail(p)
  \/ \E p \in Slots : Parse(p)
  \/ \E p \in Slots : SaveRead(p)
  \/ \E p \in Slots : SaveWrite(p)
  \/ \E p \in Slots : SaveFail(p)
  \/ \E p \in Slots : CacheWrite(p)
  \/ \E p \in Slots : CacheFail(p)
  \/ \E b \in Slots, currentWord \in 1..MaxProgress : UpdateStart(b, currentWord)
  \/ UpdateRead
  \/ UpdateWrite
  \/ UpdateFail

Spec == Init /\ [][Next]_vars

SpecParse == InitParse /\ [][Next]_vars

\* one import of a book whose spine has entries without a chapter file
MaxSkipSpine == 3

SkipLibrary ==
  {Key("epub", spine) : spine \in UNION {[1..n -> {"a", "m", "g"}] : n \in 0..MaxSkipSpine}}
  \cup {Key("epub", <<"a", "g", "b">>), Key("epub", <<"m", "b", "s">>)}

InitSkip == InitWith(SkipLibrary, 1)

SpecSkip == InitSkip /\ [][Next]_vars

\* one import of a book with or without a title of its own
TitleSpines == {<<"a">>, <<"a", "b">>, <<"b", "a">>}

TitleLibrary ==
  {Key(kind, spine) : kind \in {"epub", "epubnotitle", "epubblank"}, spine \in TitleSpines}
  \cup {Key(kind, <<>>) : kind \in {"pdftext", "pdflegal", "pdfpages"}}

InitTitle == InitWith(TitleLibrary, 1)

SpecTitle == InitTitle /\ [][Next]_vars

(***************************************************************************)
(* The library screen deleting a book.  The library holds the books of     *)
(* imports that have returned one after the other; deleteBook is a chain   *)
(* of asynchronous calls like the others.  The deletion of the word cache  *)
(* and of the source file may fail, and so may the write of the records.   *)
(***************************************************************************)
MaxDeletes == 2

\* the document of the import in slot p: a book of two chapters, or a PDF
StoredKey(p) == IF p % 2 = 1 THEN Key("epub", <<"a", "b">>) ELSE Key("pdftext", <<>>)

\* the record of the import in slot p, built at time p
StoredBook(p) ==
  CHOOSE record \in
    {NewBook(p, TypeOf(StoredKey(p)), content, IF p < MaxClock THEN p ELSE MaxClock) :
       content \in {ImportContent(Document(StoredKey(p)))}} : TRUE

StoredWords(p) == ImportContent(Document(StoredKey(p))).words

\* the record of the import in slot p after the position n was saved, the
\* last word of the book when it has fewer words
StoredBookAt(p, n) ==
  CHOOSE out \in
    {IF n = 0 THEN record
     ELSE Updated(record, IF n < record.wordCount THEN n ELSE record.wordCount - 1, MaxClock) :
       record \in {StoredBook(p)}} : TRUE

\* the imports of the slots have returned, in the order of the slots, and the
\* position n was saved for each book
ImportedAt(n) ==
  /\ books = [p \in Slots |-> StoredBookAt(p, n)]
  /\ wordsCache = [p \in Slots |-> StoredWords(p)]
  /\ files = {[path |-> DestPath(p, TypeOf(StoredKey(p))), doc |-> StoredKey(p)] : p \in Slots}
  /\ pc = [p \in Slots |-> "returned"]
  /\ doc = [p \in Slots |-> StoredKey(p)]
  /\ progress = [p \in Slots |-> <<"copying", "parsing", "saving">>]
  /\ book = [p \in Slots |-> StoredBook(p)]
  /\ words = [p \in Slots |-> StoredWords(p)]
  /\ snapshot = [p \in Slots |-> [q \in 1..(p - 1) |-> StoredBook(q)]]
  /\ error = [p \in Slots |-> ""]
  /\ upd = IdleUpdate
  /\ now = (IF MaxImports < MaxClock THEN MaxImports ELSE MaxClock)
  /\ library = {StoredKey(p) : p \in Slots}
  /\ importsLeft = 0

Imported == ImportedAt(0)

\* the user confirms the deletion of book b: deleteBook runs to its first
\* suspension
DeleteStart(b) ==
  /\ del.pc \in {"idle", "done", "threw"}
  /\ deletesLeft > 0
  /\ deletesLeft' = deletesLeft - 1
  /\ del' = [IdleDelete EXCEPT !.pc = "read", !.bookId = b]
  /\ UNCHANGED <<libraryVars, textVars, reader>>

\* deleteBook: getAllBooks has returned; without a record of that id it is over
DeleteRead ==
  /\ del.pc = "read"
  /\ del' = IF FindIndex(books, del.bookId) > 0
            THEN [del EXCEPT !.pc = "cache", !.snapshot = books]
            ELSE [del EXCEPT !.pc = "done", !.snapshot = books]
  /\ UNCHANGED <<libraryVars, textVars, deletesLeft, reader>>

\* deleteWordsCache has deleted the cache file
DeleteCache ==
  /\ del.pc = "cache"
  /\ wordsCache' = [id \in (DOMAIN wordsCache) \ {del.bookId} |-> wordsCache[id]]
  /\ del' = [del EXCEPT !.pc = "file"]
  /\ UNCHANGED <<books, files, pc, doc, progress, book, words, snapshot, error, upd, now,
                 library, importsLeft, updatesLeft>>
  /\ UNCHANGED <<textVars, deletesLeft, reader>>

\* an error of deleteWordsCache that ends deleteBook
DeleteCacheFailThrown ==
  /\ del.pc = "cache"
  /\ del' = [del EXCEPT !.pc = "threw", !.failed = @ \cup {"cache"}]
  /\ UNCHANGED <<libraryVars, textVars, deletesLeft, reader>>

\* deleteWordsCache: deleteAsync has failed, which is logged
DeleteCacheFail ==
  /\ del.pc = "cache"
  /\ del' = [del EXCEPT !.pc = "file", !.failed = @ \cup {"cache"}]
  /\ UNCHANGED <<libraryVars, textVars, deletesLeft, reader>>

\* book.filePath of the record found
FilePathOf(list, bookId) == list[FindIndex(list, bookId)].filePath

\* FileSystem.deleteAsync(book.filePath) has deleted the source file
DeleteFile ==
  /\ del.pc = "file"
  /\ files' = {f \in files : f.path # FilePathOf(del.snapshot, del.bookId)}
  /\ del' = [del EXCEPT !.pc = "write"]
  /\ UNCHANGED <<books, wordsCache, pc, doc, progress, book, words, snapshot, error, upd, now,
                 library, importsLeft, updatesLeft>>
  /\ UNCHANGED <<textVars, deletesLeft, reader>>

\* FileSystem.deleteAsync has failed, which is caught and logged
DeleteFileFail ==
  /\ del.pc = "file"
  /\ del' = [del EXCEPT !.pc = "write", !.failed = @ \cup {"file"}]
  /\ UNCHANGED <<libraryVars, textVars, deletesLeft, reader>>

\* books.filter((b) => b.id !== bookId)
WithoutBook(list, bookId) == SelectSeq(list, LAMBDA b : b.id # bookId)

\* deleteBook: setItem has stored the records left, and deleteBook returns
DeleteWrite ==
  /\ del.pc = "write"
  /\ books' = WithoutBook(del.snapshot, del.bookId)
  /\ del' = [del EXCEPT !.pc = "done"]
  /\ UNCHANGED <<wordsCache, files, pc, doc, progress, book, words, snapshot, error, upd, now,
                 library, importsLeft, updatesLeft>>
  /\ UNCHANGED <<textVars, deletesLeft, reader>>

\* deleteBook: setItem has failed
DeleteWriteFail ==
  /\ del.pc = "write"
  /\ del' = [del EXCEPT !.pc = "threw", !.failed = @ \cup {"write"}]
  /\ UNCHANGED <<libraryVars, textVars, deletesLeft, reader>>

\* the books are deleted one after the other, and no progress is saved
InitDelete ==
  /\ Imported /\ updatesLeft = 0
  /\ TextGiven(<<>>)
  /\ del = IdleDelete /\ deletesLeft = MaxDeletes /\ reader = ClosedReader

NextDelete ==
  \/ \E b \in Slots : DeleteStart(b)
  \/ DeleteRead
  \/ DeleteCache
  \/ DeleteCacheFail
  \/ DeleteFile
  \/ DeleteFileFail
  \/ DeleteWrite
  \/ DeleteWriteFail

SpecDelete == InitDelete /\ [][NextDelete]_vars

\* a book is deleted while the reading screen saves its progress
InitRace ==
  /\ Imported /\ updatesLeft = MaxUpdates
  /\ TextGiven(<<>>)
  /\ del = IdleDelete /\ deletesLeft = 1 /\ reader = ClosedReader

NextRace ==
  \/ \E b \in Slots : DeleteStart(b)
  \/ DeleteRead
  \/ DeleteCache
  \/ DeleteCacheFail
  \/ DeleteFile
  \/ DeleteFileFail
  \/ DeleteWrite
  \/ DeleteWriteFail
  \/ \E b \in Slots, currentWord \in 1..MaxProgress : UpdateStart(b, currentWord)
  \/ UpdateRead
  \/ UpdateWrite
  \/ UpdateFail

SpecRace == InitRace /\ [][NextRace]_vars

(***************************************************************************)
(* The reading screen.  loadBookData sets the record, the stored position  *)
(* and the words; the screen shows its touch zones once it is loaded.  The *)
(* playback effect sets an interval when isPlaying is true and clears it   *)
(* when the screen is rendered again with isPlaying false: until then the  *)
(* interval set may still fire.                                            *)
(***************************************************************************)
\* the positions saved before the book is opened
StoredPositions == {0, 13, 23}

\* the screen is opened on book b: loadBookData runs to its first suspension
OpenBook(b) ==
  /\ reader.pc = "closed"
  /\ reader' = [reader EXCEPT !.pc = "book", !.bookId = b]
  /\ UNCHANGED <<libraryVars, textVars, del, deletesLeft>>

\* getBook has returned: setBook and setCurrentIndex(bookData.currentWord)
LoadBook ==
  /\ reader.pc = "book"
  /\ reader' = IF FindIndex(books, reader.bookId) = 0
               THEN [reader EXCEPT !.pc = "error", !.error = "Book not found"]
               ELSE [reader EXCEPT !.pc = "words",
                                   !.book = books[FindIndex(books, reader.bookId)],
                                   !.currentIndex = books[FindIndex(books, reader.bookId)].currentWord]
  /\ UNCHANGED <<libraryVars, textVars, del, deletesLeft>>

\* loadWordsCache has returned: setWords, and the loading view goes
LoadWords ==
  /\ reader.pc = "words"
  /\ reader' = IF reader.bookId \notin DOMAIN wordsCache \/ wordsCache[reader.bookId] = <<>>
               THEN [reader EXCEPT !.pc = "error", !.error = "Could not load book content"]
               ELSE [reader EXCEPT !.pc = "ready", !.words = wordsCache[reader.bookId]]
  /\ UNCHANGED <<libraryVars, textVars, del, deletesLeft>>

\* the playback effect runs after a render: its cleanup clears the interval
\* set before, and it sets one if isPlaying && words.length > 0
PlaybackEffect ==
  /\ reader.pc = "ready"
  /\ reader.interval # (reader.isPlaying /\ Len(reader.words) > 0)
  /\ reader' = [reader EXCEPT !.interval = reader.isPlaying /\ Len(reader.words) > 0]
  /\ UNCHANGED <<libraryVars, textVars, del, deletesLeft>>

\* the interval fires
Tick ==
  /\ reader.pc = "ready" /\ reader.interval
  /\ reader' = IF reader.currentIndex >= Len(reader.words) - 1
               THEN [reader EXCEPT !.isPlaying = FALSE]
               ELSE [reader EXCEPT !.currentIndex = @ + 1]
  /\ UNCHANGED <<libraryVars, textVars, del, deletesLeft>>

\* handleTouch("left"): Math.max(0, prev - 10)
TouchLeft ==
  /\ reader.pc = "ready"
  /\ reader' = [reader EXCEPT !.currentIndex = IF @ - 10 > 0 THEN @ - 10 ELSE 0]
  /\ UNCHANGED <<libraryVars, textVars, del, deletesLeft>>

\* handleTouch("center") and the play button
TouchCenter ==
  /\ reader.pc = "ready"
  /\ reader' = [reader EXCEPT !.isPlaying = ~@]
  /\ UNCHANGED <<libraryVars, textVars, del, deletesLeft>>

\* a skip forward without the limit of the last word
TouchRightUnlimited ==
  /\ reader.pc = "ready"
  /\ reader' = [reader EXCEPT !.currentIndex = @ + 10]
  /\ UNCHANGED <<libraryVars, textVars, del, deletesLeft>>

\* handleTouch("right"): Math.min(words.length - 1, prev + 10)
TouchRight ==
  /\ reader.pc = "ready"
  /\ reader' = [reader EXCEPT !.currentIndex =
                  IF @ + 10 < Len(reader.words) - 1 THEN @ + 10 ELSE Len(reader.words) - 1]
  /\ UNCHANGED <<libraryVars, textVars, del, deletesLeft>>

\* book?.chapters || []
ChaptersOf(record) == IF record.chapters.some THEN record.chapters.v ELSE <<>>

\* the chapter list, shown when there is more than one chapter: the n-th
\* chapter is pressed, handleChapterSelect(index, item.startIndex)
ChapterSelect(n) ==
  /\ reader.pc = "ready"
  /\ Len(ChaptersOf(reader.book)) > 1
  /\ n \in DOMAIN ChaptersOf(reader.book)
  /\ reader' = [reader EXCEPT !.currentIndex = ChaptersOf(reader.book)[n].startIndex,
                              !.isPlaying = FALSE]
  /\ UNCHANGED <<libraryVars, textVars, del, deletesLeft>>

InitReader ==
  /\ \E n \in StoredPositions : ImportedAt(n)
  /\ updatesLeft = 0
  /\ TextGiven(<<>>)
  /\ ScreensIdle(0)

NextReader ==
  \/ \E b \in Slots : OpenBook(b)
  \/ LoadBook
  \/ LoadWords
  \/ PlaybackEffect
  \/ Tick
  \/ TouchLeft
  \/ TouchCenter
  \/ TouchRight
  \/ \E n \in 1..MaxSpine : ChapterSelect(n)

SpecReader == InitReader /\ [][NextReader]_vars

(***************************************************************************)
(* The texts given to the normalizer and the tokenizer, and the calls made *)
(* on them.  A text is normalized once by a parser; the stages and         *)
(* normalizeText are also called again on their own result, at most        *)
(* MaxRuns times in all, and tokenizeWords on the text given or on the     *)
(* result of normalizeText.                                                *)
(***************************************************************************)
MaxRuns == 2

MaxChars == 6

MaxBreaks == 2

MaxLines == 3

\* the parts joined, sep between them
RECURSIVE JoinWith(_, _)
JoinWith(parts, sep) ==
  IF parts = <<>> THEN <<>>
  ELSE IF Len(parts) = 1 THEN parts[1]
  ELSE parts[1] \o sep \o JoinWith(Tail(parts), sep)

\* texts of spaces, line breaks and a letter, and shorter ones with tabs and
\* carriage returns
WhitespaceTexts ==
  UNION {[1..n -> {"a", " ", "\n"}] : n \in 0..MaxChars}
  \cup UNION {[1..n -> {"a", " ", "\t", "\n", "\r"}] : n \in 0..(MaxChars \div 2)}

Fragments == {Chars("happi"), Chars("ness"), Chars("42")}

HyphenBreaks == {Chars("-\n"), Chars("- \n ")}

Breaks == HyphenBreaks \cup {Chars("-"), Chars("\n"), Chars(" ")}

\* fragments with n breaks between them, the breaks taken from seps
RECURSIVE BrokenWith(_, _)
BrokenWith(seps, n) ==
  IF n = 0 THEN Fragments
  ELSE {t \o sep \o f : t \in BrokenWith(seps, n - 1), sep \in seps, f \in Fragments}

BrokenTexts == UNION {BrokenWith(Breaks, n) : n \in 0..MaxBreaks}

Lines ==
  {Chars("Page 4"), Chars("42"), Chars("[7]"), Chars("-"), Chars("5 -"), Chars("p. 9"),
   Chars("iv"), Chars("Chapter 1"), Chars("Copyright x"), Chars("ISBN 1-2"), Chars("a b")}

LineTexts == {JoinWith(ls, <<"\n">>) : ls \in UNION {[1..n -> Lines] : n \in 1..MaxLines}}

InputTexts == WhitespaceTexts \cup BrokenTexts \cup LineTexts

\* the texts normalizeText is called on with every choice of options
OptionTexts == BrokenWith(Breaks, 1) \cup Lines

AllOptions ==
  [removePageNumbers : BOOLEAN, removeChapterMarkers : BOOLEAN, removeHeaders : BOOLEAN,
   collapseWhitespace : BOOLEAN, handleHyphenation : BOOLEAN]

InitText == EmptyLibrary({}, 0) /\ ScreensIdle(0) /\ \E t \in InputTexts : TextGiven(t)

Last(seq) == seq[Len(seq)]

\* the function may be called: on the text given, or again on its own result
MayRun(fn) == Len(applied) < MaxRuns /\ \A i \in DOMAIN applied : applied[i] = fn

\* fn has returned out
Returned(fn, out) ==
  /\ trail' = Append(trail, out)
  /\ applied' = Append(applied, fn)

Hyphenate ==
  /\ MayRun("handleHyphenation")
  /\ Returned("handleHyphenation", handleHyphenation(Last(trail)))
  /\ UNCHANGED <<options, tokenList, libraryVars, screenVars>>

DropPageNumbers ==
  /\ MayRun("removePageNumbers")
  /\ Returned("removePageNumbers", removePageNumbers(Last(trail)))
  /\ UNCHANGED <<options, tokenList, libraryVars, screenVars>>

DropChapterMarkers ==
  /\ MayRun("removeChapterMarkers")
  /\ Returned("removeChapterMarkers", removeChapterMarkers(Last(trail)))
  /\ UNCHANGED <<options, tokenList, libraryVars, screenVars>>

DropHeaders ==
  /\ MayRun("removeHeaders")
  /\ Returned("removeHeaders", removeHeaders(Last(trail)))
  /\ UNCHANGED <<options, tokenList, libraryVars, screenVars>>

Collapse ==
  /\ MayRun("collapseWhitespace")
  /\ Returned("collapseWhitespace", collapseWhitespace(Last(trail)))
  /\ UNCHANGED <<options, tokenList, libraryVars, screenVars>>

\* normalizeText(text, opts); called again, it is called with the same options
Normalize(opts) ==
  /\ MayRun("normalizeText")
  /\ IF applied = <<>> THEN opts = DEFAULT_OPTIONS \/ trail[1] \in OptionTexts
     ELSE opts = options
  /\ Returned("normalizeText", normalizeTextWith(Last(trail), opts))
  /\ options' = opts
  /\ UNCHANGED <<tokenList, libraryVars, screenVars>>

\* tokenizeWords(text), which the parsers call on the result of normalizeText
Tokenize ==
  /\ applied = <<>> \/ (applied = <<"normalizeText">> /\ options = DEFAULT_OPTIONS)
  /\ tokenList' = tokenizeWords(Last(trail))
  /\ applied' = Append(applied, "tokenizeWords")
  /\ UNCHANGED <<trail, options, libraryVars, screenVars>>

NextText ==
  \/ Hyphenate
  \/ DropPageNumbers
  \/ DropChapterMarkers
  \/ DropHeaders
  \/ Collapse
  \/ \E opts \in AllOptions : Normalize(opts)
  \/ Tokenize

SpecText == InitText /\ [][NextText]_vars

(***************************************************************************)
(* The literal strings given to decodePDFString and the binary contents    *)
(* given to extractTextFromPDFBinary, and the one call made on each.  The  *)
(* binary string atob returns has characters with the codes 0 to 255.      *)
(***************************************************************************)
MaxTokens == 3

MaxCandidate == 10

MaxPieces == 2

\* the escape sequences of a literal string, and two characters that stand
\* for themselves
EscapeTokens ==
  {Chars("\\n"), Chars("\\r"), Chars("\\t"), Chars("\\("), Chars("\\)"), Chars("\\\\"),
   Chars("\\101"), Chars("n"), Chars("1")}

LiteralStrings == {Flatten(ts) : ts \in UNION {[1..n -> EscapeTokens] : n \in 1..MaxTokens}}

Repeat(c, n) == [i \in 1..n |-> c]

\* candidates of the fallback scan: printable characters (a letter, or e acute
\* of the Latin-1 supplement) and then characters that are not (tabs, or the
\* control character 130)
Candidates ==
  {Repeat(good, i) \o Repeat(bad, j) :
     good \in {"a", Coded(233)}, bad \in {"\t", Coded(130)},
     i \in 0..MaxCandidate, j \in 0..MaxCandidate} \ {<<>>}

CandidateBinaries ==
  {<<"(">> \o c \o <<")">> : c \in {c \in Candidates : Len(c) <= MaxCandidate}}

\* hex strings of i letters A and j tabs
HexBinaries ==
  {<<"<">> \o Flatten(Repeat(Chars("41"), ij[1])) \o Flatten(Repeat(Chars("09"), ij[2]))
   \o <<">">> :
     ij \in {ij \in (0..MaxCandidate) \X (0..MaxCandidate) :
               ij[1] + ij[2] >= 1 /\ ij[1] + ij[2] <= MaxCandidate}}

\* a text block showing a string, a text block showing an array of strings, a
\* string outside of any text block, a hex string
Pieces ==
  {Chars("BT /F1 12 Tf (Hello) Tj ET"), Chars("BT [(big) -3 (world)] TJ ET"),
   Chars("(raw text)"), Chars("<686578>")}

PieceBinaries ==
  {JoinWith(ps, <<"\n">>) : ps \in UNION {[1..n -> Pieces] : n \in 1..MaxPieces}}

PdfBinaries == CandidateBinaries \cup HexBinaries \cup PieceBinaries

InitPdf ==
  /\ EmptyLibrary({}, 0) /\ ScreensIdle(0)
  /\ \E t \in LiteralStrings \cup PdfBinaries : TextGiven(t)

\* decodePDFString(str)
DecodeString ==
  /\ applied = <<>> /\ trail[1] \in LiteralStrings
  /\ Returned("decodePDFString", decodePDFString(trail[1]))
  /\ UNCHANGED <<options, tokenList, libraryVars, screenVars>>

\* extractTextFromPDFBinary(binary)
ExtractText ==
  /\ applied = <<>> /\ trail[1] \in PdfBinaries
  /\ Returned("extractTextFromPDFBinary", extractTextFromPDFBinary(trail[1]))
  /\ UNCHANGED <<options, tokenList, libraryVars, screenVars>>

NextPdf ==
  \/ DecodeString
  \/ ExtractText

SpecPdf == InitPdf /\ [][NextPdf]_vars

(***************************************************************************)
(* Properties of parseEPUB, over the imports whose parser has returned     *)
(***************************************************************************)
\* the parser of import p has returned and the book record has been built
HasParsed(p) == book[p] # NoBook

ParsedEpub(p) == HasParsed(p) /\ doc[p].kind = "epub"

MoreThanTen(tokens) == Len(tokens) > 10

\* the token lists of the chapter files of a spine, in the order of its itemrefs
SpineTokens(spine) == [n \in 1..Len(spine) |-> TokensOf(spine[n])]

\* sum of the lengths of the first n of the token lists
RECURSIVE SumLen(_, _)
SumLen(lists, n) == IF n = 0 THEN 0 ELSE SumLen(lists, n - 1) + Len(lists[n])

\* C1: the chapter list of every result of parseEPUB that has chapters starts at
\* index 0, and startIndex increases strictly along the list
C1_StartIndexIncreasing ==
  \A p \in Slots :
    ParsedEpub(p) /\ book[p].chapters.v # <<>> =>
      LET chapters == book[p].chapters.v
      IN /\ chapters[1].startIndex = 0
         /\ \A i \in 1..(Len(chapters) - 1) : chapters[i].startIndex < chapters[i + 1].startIndex

C1_Witness == \E p \in Slots : ParsedEpub(p) /\ Len(book[p].chapters.v) = 3

\* C2: the startIndex of each chapter of a result of parseEPUB is the sum of the
\* token counts of the chapters accepted before it in spine order, and the word
\* count is the sum over all the accepted chapters
C2_StartIndexIsRunningTotal ==
  \A p \in Slots :
    ParsedEpub(p) =>
      LET chapters == book[p].chapters.v
          accepted == SelectSeq(SpineTokens(doc[p].spine), MoreThanTen)
      IN /\ \A i \in DOMAIN chapters :
              i <= Len(accepted) /\ chapters[i].startIndex = SumLen(accepted, i - 1)
         /\ book[p].wordCount = SumLen(accepted, Len(accepted))

C2_Witness ==
  \E p \in Slots :
    /\ ParsedEpub(p) /\ doc[p].spine = <<"a", "b", "a">>
    /\ book[p].chapters.v[3].startIndex = 24 /\ book[p].wordCount = 35

\* C3: a spine entry with 10 tokens or fewer is in no chapter list and adds no
\* word: there are as many chapters as entries with more than 10 tokens, none has
\* the title of the short chapter file, and the number of words is the sum of the
\* token counts of the entries with more than 10 tokens
C3_ShortChaptersDropped ==
  \A p \in Slots :
    ParsedEpub(p) =>
      LET chapters == book[p].chapters.v
          long == {n \in 1..Len(doc[p].spine) : Len(TokensOf(doc[p].spine[n])) > 10}
      IN /\ Len(chapters) = Cardinality(long)
         /\ \A i \in DOMAIN chapters : chapters[i].title # Chars("Short")
         /\ Len(words[p]) = SumLen(SelectSeq(SpineTokens(doc[p].spine), MoreThanTen),
                                     Cardinality(long))

C3_Witness ==
  \E p \in Slots :
    /\ ParsedEpub(p) /\ doc[p].spine = <<"a", "s", "b">>
    /\ Len(book[p].chapters.v) = 2 /\ Len(words[p]) = 24

\* C4: the words of a result of parseEPUB are the token lists of the accepted
\* chapters, one after the other in the order of the itemrefs of the spine
C4_WordsInSpineOrder ==
  \A p \in Slots :
    ParsedEpub(p) => words[p] = Flatten(SelectSeq(SpineTokens(doc[p].spine), MoreThanTen))

C4_Witness ==
  \E p \in Slots :
    /\ ParsedEpub(p) /\ doc[p].spine = <<"b", "g", "a">>
    /\ words[p] = TokensOf("b") \o TokensOf("a")

(***************************************************************************)
(* Properties of importBook and of the stored records                      *)
(***************************************************************************)
Stages == <<"copying", "parsing", "saving">>

\* the copy of the document of import p is in the book directory
Copied(p) == \E copy \in files : copy.path.id = p

\* the documents no parser returns from
FailingKinds == {"nocontainer", "nofullpath", "noopf", "corrupt", "pdfscan"}

\* C5: the progress events of an import are a prefix of copying, parsing,
\* saving: each at most once and in order, parsing only once the file is copied,
\* saving only for a document the parser returned from
C5_ProgressInOrder ==
  \A p \in Slots :
    LET n == Len(progress[p])
    IN /\ n <= 3 /\ progress[p] = SubSeq(Stages, 1, n)
       /\ (pc[p] # "idle" => n >= 1)
       /\ (n >= 2 => Copied(p))
       /\ (n = 3 => doc[p].kind \notin FailingKinds)

C5_Witness ==
  \E p \in Slots :
    /\ pc[p] = "failed" /\ error[p] = ImageBasedError /\ progress[p] = <<"copying", "parsing">>
    /\ \E q \in Slots : pc[q] = "returned" /\ progress[q] = Stages

\* C6: an import that ended with an error has no record in the store
C6_NoRecordAfterFailure ==
  \A p \in Slots : pc[p] = "failed" => ~HasRecord(p)

\* the parser of import p has run: it returned or it threw
ParserDone(p) ==
  \/ pc[p] \in {"saveRead", "saveWrite", "cacheWrite", "returned"}
  \/ pc[p] = "failed" /\ error[p] # "copy failed"

\* the text of the PDF of this key, as extracted and then normalized, is under 50 characters
ShortOnceNormalized(key) ==
  Len(normalizeText(extractTextFromPDFBinary(Document(key).file.binary))) < 50

\* C7: the import of a PDF whose text, once normalized, is shorter than 50
\* characters ends with the image-based error and stores no record
C7_ShortNormalizedPdfFails ==
  \A p \in Slots :
    TypeOf(doc[p]) = "pdf" /\ ParserDone(p) /\ ShortOnceNormalized(doc[p]) =>
      pc[p] = "failed" /\ error[p] = ImageBasedError /\ ~HasRecord(p)

\* C8: once two concurrent imports of different documents have both ended (and
\* no progress was saved meanwhile), each that returned has its record in the store
C8_ConcurrentImportsKeepRecords ==
  (/\ \A p \in {1, 2} : pc[p] \in {"returned", "failed"}
   /\ doc[1] # doc[2]
   /\ updatesLeft = MaxUpdates /\ upd.pc = "idle")
  => \A p \in {1, 2} : pc[p] = "returned" => HasRecord(p)

\* the step that ends a call of updateProgress
UpdateEnds == upd.pc # "idle" /\ upd'.pc = "idle"

\* record after is record before but for currentWord and lastReadAt
SameButProgress(before, after) ==
  after = [before EXCEPT !.currentWord = after.currentWord, !.lastReadAt = after.lastReadAt]

\* C9: a call of updateProgress writes no word cache, leaves the store as it is
\* when no record has the id, and otherwise changes nothing but currentWord and
\* lastReadAt of the record with the id
C9_UpdateChangesOnlyProgress ==
  [][UpdateEnds =>
       /\ wordsCache' = wordsCache
       /\ (~HasRecord(upd.bookId) => books' = books)
       /\ DOMAIN books' = DOMAIN books
       /\ \A i \in DOMAIN books :
            IF books[i].id = upd.bookId THEN SameButProgress(books[i], books'[i])
            ELSE books'[i] = books[i]]_vars

\* the error parseEPUB throws for a document of a kind without its structure
StructureError(kind) ==
  CASE kind = "nocontainer" -> "Failed to parse EPUB: Error: Invalid EPUB: Missing container.xml"
    [] kind = "nofullpath" -> "Failed to parse EPUB: Error: Could not find OPF path in container.xml"
    [] kind = "noopf" -> "Failed to parse EPUB: Error: Invalid EPUB: Missing OPF file"

\* C10: the import of an EPUB without container.xml, without a full-path in
\* it, or without the OPF file it names never gets past the parser: it ends with
\* the error of parseEPUB, and neither a record nor a word cache is written for it
C10_MissingStructureFails ==
  \A p \in Slots :
    doc[p].kind \in {"nocontainer", "nofullpath", "noopf"} =>
      /\ pc[p] \in {"copying", "parsing", "failed"}
      /\ (ParserDone(p) => error[p] = StructureError(doc[p].kind))
      /\ ~HasRecord(p)
      /\ p \notin DOMAIN wordsCache

C10_Witness ==
  \E p \in Slots :
    /\ doc[p].kind = "nofullpath" /\ pc[p] = "failed" /\ Copied(p)
    /\ error[p] = "Failed to parse EPUB: Error: Could not find OPF path in container.xml"

(***************************************************************************)
(* Spine entries without a chapter file, the stored record, the table of   *)
(* contents                                                                *)
(***************************************************************************)
\* the spine id has a manifest item and a chapter file in the archive
HasChapterFile(id) == id \notin {"m", "g"}

\* C11: when the parser has returned for a spine with entries that have no
\* manifest item or no chapter file, its words and chapters are those it returns
\* for the same spine without these entries
C11_MissingEntriesSkipped ==
  \A p \in Slots :
    /\ ParsedEpub(p) /\ pc[p] = "saveRead"
    /\ SelectSeq(doc[p].spine, HasChapterFile) # doc[p].spine
    => \E other \in {parseEPUB(GoodEpub(SelectSeq(doc[p].spine, HasChapterFile)).file)} :
         /\ other.ok
         /\ other.words = words[p]
         /\ other.chapters = book[p].chapters.v

C11_Witness ==
  \E p \in Slots :
    /\ ParsedEpub(p) /\ pc[p] = "saveRead" /\ doc[p].spine = <<"a", "g", "b">>
    /\ Len(book[p].chapters.v) = 2 /\ book[p].chapters.v[2].startIndex = 11
    /\ book[p].chapters.v[2].title = Chars("Chapter 2")

\* C12: the record of an import that returned has the type of the picked
\* document and the length of the cached words as its wordCount, and, as long as
\* no progress was saved, currentWord 0
C12_RecordMatchesImport ==
  \A p \in Slots : \A i \in DOMAIN books :
    pc[p] = "returned" /\ books[i].id = p =>
      /\ books[i].type = TypeOf(doc[p])
      /\ p \in DOMAIN wordsCache /\ books[i].wordCount = Len(wordsCache[p])
      /\ (updatesLeft = MaxUpdates => books[i].currentWord = 0)

C12_Witness ==
  \E p \in Slots : \E i \in DOMAIN books :
    /\ pc[p] = "returned" /\ books[i].id = p /\ updatesLeft = MaxUpdates
    /\ books[i].type = "pdf" /\ books[i].wordCount = 8 /\ Len(wordsCache[p]) = 8

\* C17: the case of the "Start" chapter, no chapter accepted and yet words
\* collected, arises for no document: words are collected only together with chapters
C17_StartChapterCaseNeverArises ==
  \A p \in Slots :
    HasParsed(p) /\ TypeOf(doc[p]) = "epub" =>
      /\ (book[p].chapters.v = <<>> <=> words[p] = <<>>)
      /\ \A i \in DOMAIN book[p].chapters.v : book[p].chapters.v[i].title # Chars("Start")

\* the title the NCX gives the chapter file of a spine id ("": none)
NcxTitleOf(id) == CASE id = "a" -> "One" [] id = "s" -> "Short" [] OTHER -> ""

\* the title the nav document of a book of this kind gives it ("": none)
NavTitleOf(kind, id) ==
  CASE kind = "epubnav" /\ id = "a" -> "First"
    [] kind \in NavKinds /\ id = "b" -> "Second"
    [] OTHER -> ""

IsLong(id) == Len(TokensOf(id)) > 10

\* C20: a chapter whose file both the NCX and the nav document title has the
\* title of the nav document; one titled by only one of the two has that title
C20_NavTitleWins ==
  \A p \in Slots :
    HasParsed(p) /\ doc[p].kind \in NavKinds \cup {"epub"} =>
      LET ids == SelectSeq(doc[p].spine, IsLong)
          chapters == book[p].chapters.v
      IN /\ Len(chapters) = Len(ids)
         /\ \A i \in DOMAIN chapters :
              IF NavTitleOf(doc[p].kind, ids[i]) # ""
              THEN chapters[i].title = Chars(NavTitleOf(doc[p].kind, ids[i]))
              ELSE NcxTitleOf(ids[i]) # "" => chapters[i].title = Chars(NcxTitleOf(ids[i]))

C20_Witness ==
  \E p \in Slots :
    /\ HasParsed(p) /\ doc[p].kind = "epubnav"
    /\ book[p].chapters.v[1].title = Chars("First")
    /\ book[p].chapters.v[2].title = Chars("Second")

(***************************************************************************)
(* Properties of the tokenizer and of the normalizer                       *)
(***************************************************************************)
\* the maximal runs of characters other than whitespace of text from index i
\* on, in order, cur being the run under way
RECURSIVE RunsFrom(_, _, _)
RunsFrom(text, i, cur) ==
  IF i > Len(text) THEN (IF cur = <<>> THEN <<>> ELSE <<cur>>)
  ELSE IF text[i] \in Space
  THEN (IF cur = <<>> THEN <<>> ELSE <<cur>>) \o RunsFrom(text, i + 1, <<>>)
  ELSE RunsFrom(text, i + 1, Append(cur, text[i]))

HasNonDigit(word) == \E i \in DOMAIN word : word[i] \notin Digit

\* tokenizeWords has just returned
Tokenized == applied # <<>> /\ Last(applied) = "tokenizeWords"

\* C13: tokenizeWords returns the runs of characters other than whitespace of
\* its input, in order, but for those made of digits only: no token is empty or a
\* number, and the text "42", normalized and then tokenized, gives no token "42"
C13_TokensAreWordsInOrder ==
  Tokenized =>
    /\ tokenList = SelectSeq(RunsFrom(Last(trail), 1, <<>>), HasNonDigit)
    /\ \A i \in DOMAIN tokenList : tokenList[i] # <<>> /\ HasNonDigit(tokenList[i])
    /\ (trail[1] = Chars("42") => Chars("42") \notin Range(tokenList))

C13_Witness ==
  /\ trail[1] = Chars("42 ness 42")
  /\ applied = <<"normalizeText", "tokenizeWords">>
  /\ tokenList = <<Chars("ness")>>

StageNames ==
  {"handleHyphenation", "removePageNumbers", "removeChapterMarkers", "removeHeaders",
   "collapseWhitespace"}

\* C14: a stage called on its own result returns it as it is
C14_StagesIdempotent ==
  \A stage \in StageNames : applied = <<stage, stage>> => trail[3] = trail[2]

\* C15: normalizeText with the default options, called on its own result,
\* returns it as it is
C15_NormalizeIdempotent ==
  applied = <<"normalizeText", "normalizeText">> /\ options = DEFAULT_OPTIONS
    => trail[3] = trail[2]

IsLetter(c) == c \in Letter

\* the text is fragments of letters with a hyphen and a line break, with or
\* without spaces around the line break, between each two of them
IsHyphenatedWord(t) ==
  /\ \E n \in 1..MaxBreaks : t \in BrokenWith(HyphenBreaks, n)
  /\ \A i \in DOMAIN t : t[i] \notin Digit

\* C16: a word broken by hyphens at line breaks, once or several times in a
\* row, is one token after normalizeText and tokenizeWords: its fragments joined
C16_HyphenatedWordIsOneToken ==
  /\ applied = <<"normalizeText", "tokenizeWords">>
  /\ IsHyphenatedWord(trail[1])
  => tokenList = <<SelectSeq(trail[1], IsLetter)>>

RunStage(stage, t) ==
  CASE stage = "handleHyphenation" -> handleHyphenation(t)
    [] stage = "removePageNumbers" -> removePageNumbers(t)
    [] stage = "removeChapterMarkers" -> removeChapterMarkers(t)
    [] stage = "removeHeaders" -> removeHeaders(t)
    [] stage = "collapseWhitespace" -> collapseWhitespace(t)

StageOrder ==
  <<"handleHyphenation", "removePageNumbers", "removeChapterMarkers", "removeHeaders",
    "collapseWhitespace">>

\* the stages named that opts enables, run on t one after the other
RECURSIVE RunInOrder(_, _, _)
RunInOrder(stages, opts, t) ==
  IF stages = <<>> THEN t
  ELSE RunInOrder(Tail(stages), opts,
                  IF opts[Head(stages)] THEN RunStage(Head(stages), t) ELSE t)

\* C18: whatever stages the options enable, normalizeText returns what the
\* enabled ones give when run in the order hyphenation repair, page numbers,
\* chapter markers, headers, whitespace collapse, each on the result of the one
\* before: the hyphenation repair, when enabled, runs on the text as given
C18_StagesInFixedOrder ==
  applied = <<"normalizeText">> => trail[2] = RunInOrder(StageOrder, options, trail[1])

C18_Witness ==
  /\ applied = <<"normalizeText">> /\ options = DEFAULT_OPTIONS
  /\ trail[1] = Chars("happi-\n42") /\ trail[2] = Chars("happi42")

\* C19: what collapseWhitespace returns has no three line breaks in a row, no
\* two spaces or tabs in a row, no space next to a line break, and no whitespace
\* at either end
C19_WhitespaceCollapsed ==
  applied = <<"collapseWhitespace">> =>
    LET out == trail[2]
    IN /\ \A i \in 1..(Len(out) - 2) : ~(out[i] = "\n" /\ out[i + 1] = "\n" /\ out[i + 2] = "\n")
       /\ \A i \in 1..(Len(out) - 1) :
            /\ ~(out[i] \in {" ", "\t"} /\ out[i + 1] \in {" ", "\t"})
            /\ ~(out[i] = " " /\ out[i + 1] = "\n")
            /\ ~(out[i] = "\n" /\ out[i + 1] = " ")
       /\ (out # <<>> => out[1] \notin Space /\ Last(out) \notin Space)

(***************************************************************************)
(* Generated chapter titles                                                *)
(***************************************************************************)
\* C21: an accepted chapter the table of contents gives no title, and whose
\* file name has neither "chapter" nor "chap", is titled "Chapter n", n being its
\* position from one in the chapter list: the entries of the spine that are
\* short or have no file take no number
C21_GeneratedTitleCountsAccepted ==
  \A p \in Slots :
    ParsedEpub(p) =>
      LET ids == SelectSeq(doc[p].spine, IsLong)
          chapters == book[p].chapters.v
      IN /\ Len(chapters) = Len(ids)
         /\ \A n \in DOMAIN chapters :
              NcxTitleOf(ids[n]) = "" =>
                chapters[n].title = Chars("Chapter ") \o <<Chars("123456789")[n]>>

C21_Witness ==
  \E p \in Slots :
    /\ ParsedEpub(p) /\ doc[p].spine = <<"s", "g", "b">>
    /\ Len(book[p].chapters.v) = 1
    /\ book[p].chapters.v[1].title = Chars("Chapter 1")

(***************************************************************************)
(* Properties of the PDF parser                                            *)
(***************************************************************************)
\* the number of places of text at which part starts
Occurrences(part, text) ==
  Cardinality({i \in 1..(Len(text) - Len(part) + 1) :
                 SubSeq(text, i, i + Len(part) - 1) = part})

ShownStrings == {Chars("Hello"), Chars("big"), Chars("world"), Chars("raw text")}

\* C22: a literal string of the binary content is in the extracted text as
\* often as it is in the content: the string that a Tj or TJ operator of a text
\* block shows is not taken a second time by the scan for strings
C22_ShownStringExtractedOnce ==
  applied = <<"extractTextFromPDFBinary">> /\ trail[1] \in PieceBinaries =>
    \A str \in ShownStrings :
      Occurrences(str, trail[2]) = Occurrences(<<"(">> \o str \o <<")">>, trail[1])

\* the characters of text that the heuristic counts as printable
PrintableCount(text) ==
  Cardinality({i \in 1..Len(text) : IsPrintableCode(CodeOf(text[i]))})

\* longer than 2 characters, and at least 70% of them printable
IsKept(candidate) ==
  Len(candidate) > 2 /\ 10 * PrintableCount(candidate) >= 7 * Len(candidate)

\* C23: the scan for strings keeps a candidate exactly when it is longer than 2
\* characters and at least 70% of its characters are printable
C23_CandidateKeptFromSeventyPercent ==
  applied = <<"extractTextFromPDFBinary">> =>
    /\ trail[1] \in CandidateBinaries =>
         LET candidate == SubSeq(trail[1], 2, Len(trail[1]) - 1)
         IN trail[2] = IF IsKept(candidate) THEN candidate ELSE <<>>
    /\ trail[1] \in HexBinaries =>
         LET candidate == decodeHexString(SubSeq(trail[1], 2, Len(trail[1]) - 1))
         IN trail[2] = IF IsKept(candidate) THEN candidate ELSE <<>>

\* a literal string read from left to right: an escape sequence gives its
\* character, any other character itself
RECURSIVE ReadLeftToRight(_)
ReadLeftToRight(str) ==
  IF str = <<>> THEN <<>>
  ELSE IF str[1] # "\\" THEN <<str[1]>> \o ReadLeftToRight(Tail(str))
  ELSE IF str[2] \in Digit
  THEN <<CharOf(ParseDigits(SubSeq(str, 2, 4), 8))>> \o ReadLeftToRight(SubSeq(str, 5, Len(str)))
  ELSE <<CASE str[2] = "n" -> "\n" [] str[2] = "r" -> "\r" [] str[2] = "t" -> "\t"
           [] OTHER -> str[2]>>
       \o ReadLeftToRight(SubSeq(str, 3, Len(str)))

\* C24: decodePDFString gives each escape sequence of a literal string its
\* character, the string read from left to right
C24_EscapesReadLeftToRight ==
  applied = <<"decodePDFString">> => trail[2] = ReadLeftToRight(trail[1])

C29_DeletedRecordStaysDeleted ==
  del.pc = "done" => ~HasRecord(del.bookId)

(***************************************************************************)
(* The title of an imported book                                           *)
(***************************************************************************)
\* the title the document has of its own: the dc:title of an EPUB, the first
\* line of a PDF that the heuristic of extractTitle takes ("": none)
OwnTitleOf(key) ==
  CASE key.kind = "epub" -> "Tale"
    [] key.kind = "pdftext" -> "The quick brown fox jumps over the lazy dog and..."
    [] key.kind = "pdflegal" -> "A tale of nine"
    [] OTHER -> ""

\* the title derived from the name of the file
FilenameTitleOf(key) ==
  CASE key.kind \in {"epub", "epubnotitle"} -> "My First Book"
    [] key.kind = "epubblank" -> "Untitled"
    [] key.kind = "pdftext" -> "The Fox"
    [] key.kind = "pdfpages" -> "The Fox"
    [] key.kind = "pdflegal" -> "Tale"

\* C26: the title of the record of an imported book is the title the document
\* has of its own, when it has one, and else the title derived from the name of
\* its file; it is never empty
C26_TitleIsOwnOrFromFilename ==
  \A p \in Slots :
    HasParsed(p) =>
      /\ book[p].title # <<>>
      /\ book[p].title = Chars(IF OwnTitleOf(doc[p]) # "" THEN OwnTitleOf(doc[p])
                               ELSE FilenameTitleOf(doc[p]))

(***************************************************************************)
(* Chapters and words of a parsed EPUB                                     *)
(***************************************************************************)
\* C27: what parseEPUB returns has no chapter exactly when it has no word, and
\* the branch that adds the chapter "Start" is not taken: the chapters are
\* those of the spine entries accepted
C27_NoChapterIffNoWord ==
  \A p \in Slots :
    ParsedEpub(p) =>
      LET chapters == book[p].chapters.v
      IN /\ (Len(chapters) = 0) = (Len(words[p]) = 0)
         /\ Len(chapters) = Len(SelectSeq(doc[p].spine, IsLong))
         /\ ~\E n \in DOMAIN chapters : chapters[n].title = Chars("Start")

C27_Witness ==
  \E p \in Slots :
    /\ ParsedEpub(p) /\ doc[p].spine = <<"s", "g", "m">>
    /\ book[p].chapters.v = <<>> /\ words[p] = <<>>

\* the number of words from chapter n to the next chapter, or to the end
SpanOf(chapters, wordCount, n) ==
  (IF n < Len(chapters) THEN chapters[n + 1].startIndex ELSE wordCount) - chapters[n].startIndex

\* C28: in every stored record of an EPUB import, wordCount is the length of
\* the cached words once they are cached, the startIndex of every chapter is an
\* index of a word, and every chapter has more than 10 words
C28_StoredChaptersSpanWords ==
  \A i \in DOMAIN books :
    books[i].type = "epub" =>
      LET chapters == books[i].chapters.v
          wordCount == books[i].wordCount
      IN /\ books[i].id \in DOMAIN wordsCache => wordCount = Len(wordsCache[books[i].id])
         /\ \A n \in DOMAIN chapters :
              /\ 0 <= chapters[n].startIndex /\ chapters[n].startIndex < wordCount
              /\ SpanOf(chapters, wordCount, n) >= 11

C28_Witness ==
  \E i \in DOMAIN books :
    /\ books[i].type = "epub" /\ books[i].id \in DOMAIN wordsCache
    /\ Len(wordsCache[books[i].id]) = 35 /\ books[i].wordCount = 35
    /\ Len(books[i].chapters.v) = 3
    /\ books[i].chapters.v[2].startIndex = 11 /\ books[i].chapters.v[3].startIndex = 24

(***************************************************************************)
(* Properties of the reading screen                                        *)
(***************************************************************************)
IndexInRange ==
  reader.pc = "ready" =>
    /\ reader.words # <<>>
    /\ 0 <= reader.currentIndex /\ reader.currentIndex <= Len(reader.words) - 1

TickAtLastWordStops ==
  Tick /\ reader.currentIndex = Len(reader.words) - 1 =>
    reader'.currentIndex = reader.currentIndex /\ ~reader'.isPlaying

\* C30: once the words are loaded, playback ticks, skips of 10 words and
\* chapter selections keep currentIndex between 0 and words.length - 1, and a
\* tick at the last word leaves currentIndex as it is and sets isPlaying to false
C30_IndexStaysInRange == []IndexInRange /\ [][TickAtLastWordStops]_vars

C30_Witness ==
  /\ reader.pc = "ready" /\ reader.bookId = 1 /\ reader.interval
  /\ reader.currentIndex = Len(reader.words) - 1 /\ ~reader.isPlaying
  /\ reader.book.currentWord = 13

====
